---- MODULE Spec2Model ----
(***************************************************************************)
(* A model of the local store of the gym-workout application               *)
(* (db/indexedDB.ts, database version 6): opening and upgrading the        *)
(* database, the v1 -> v2 workout-log migration, the write and query       *)
(* primitives, and backup export / import.                                 *)
(*                                                                         *)
(* The IndexedDB engine itself is modelled by the behaviour the standard   *)
(* prescribes for the calls the code makes: add() on a store with          *)
(* keyPath 'id' and autoIncrement, put() on a store with keyPath 'id',     *)
(* index cursors, open requests served in order, and the success event of  *)
(* an open request firing only after its upgrade transaction has finished. *)
(***************************************************************************)
EXTENDS Integers, Sequences, FiniteSets, TLC

\* A field that is not present on a record (JavaScript undefined).
Absent == -1

\* const DB_VERSION = 6
DB_VERSION == 6

\* ---- bounds of the model ----
\* the workoutLogs collection holds at most MaxLogs records
MaxLogs == 3
\* a list of a backup document holds at most MaxDocLen entries
MaxDocLen == 2
\* a database of version 1 holds at most MaxLegacy records when it is opened
MaxLegacy == 2
\* the number of callers of store operations in one process lifetime
NumCallers == 2
\* The days of the local calendar, the last of which is today
NumDays == 3
\* the reps string of a legacy exercise holds at most MaxRepsLen characters
MaxRepsLen == 4

VARIABLES
  exercises,   \* the exercises collection: exercise id -> record
  logs,        \* the workoutLogs collection: id -> record
  keyGen,      \* the key generator of the workoutLogs collection
  order,       \* history: ids of the workout logs in the order they were inserted
  ret,         \* the value the last operation returned
  dbVersion,   \* the version of the database on disk (0: no database yet)
  oldVersion,  \* event.oldVersion of the upgrade that ran (Absent: none ran)
  dbInstance,  \* the module's dbInstance: 0 is null, i the connection of the i-th open request
  openReqs,    \* the indexedDB.open requests made, in order
  upgrade,     \* the upgrade transaction: "none", "migrating" or "complete"
  cursor,      \* the keys the migration cursor has still to visit
  pc,          \* where each caller is: "idle", "waiting", "ready", "done", "failed"
  op,          \* the operation each caller invoked
  handle,      \* the connection initDB resolved each caller's promise with (0: none)
  orig,        \* history: the workoutLogs collection as it was when the process started
  clock,       \* Date.now(), in hours since the first midnight of the calendar
  calendar,    \* the local time zone: the length in hours of each calendar day
  utcOffset,   \* the local time zone: the hours local time is ahead of UTC
  bodyWeight,  \* the bodyWeight collection: id -> record
  bwKeyGen,    \* the key generator of the bodyWeight collection
  userProfile, \* the userProfile collection: id -> record
  coachFeedback, \* the coachFeedback collection: id -> record
  cfKeyGen,    \* the key generator of the coachFeedback collection
  arg,         \* the argument of the last call of a pure function
  localStorage, \* window.localStorage: key -> string
  notification, \* BackupNotification's state: showNotification, isDownloading, error
  sessionView, \* SessionView's state: sessionEntries, isSaving, saveError, and whether it is shown
  caches,      \* the service worker's CacheStorage: cache name -> the URLs it answers
  worker,      \* the service worker: "none", "installed" or "activated" (controls the page)
  online,      \* whether the network can be reached
  loadedOnline \* history: the app has been loaded once while the network could be reached

storeVars == <<exercises, logs, keyGen, order, ret>>
openVars == <<dbVersion, oldVersion, dbInstance, openReqs, upgrade, cursor, pc, op, handle, orig>>
clockVars == <<clock, calendar, utcOffset>>
sideVars == <<bodyWeight, bwKeyGen, userProfile, coachFeedback, cfKeyGen>>
appVars == <<localStorage, notification, sessionView, caches, worker, online, loadedOnline>>
extVars == <<clockVars, sideVars, arg, appVars>>
vars == <<storeVars, openVars, extVars>>

Callers == 1..NumCallers

\* ------------------------------------------------------------------------
\* Records

ExerciseIds == {"e1", "e2"}

\* An exercise as it appears in a document or in a call; "none" is a field
\* that is not present.
ExerciseItem(id, name) == [id |-> id, name |-> name]

\* A null entry of a list.
NullItem == ExerciseItem("null", "null")

\* A workout-log record (interface WorkoutLogEntry, plus the legacy field
\* weight of database version 1).
LogRecord(id, ex, sess, val, wt, done, ts, ty, tm, pa) ==
  [id |-> id, exerciseId |-> ex, sessionId |-> sess, value |-> val,
   weight |-> wt, completed |-> done, timestamp |-> ts, type |-> ty,
   time |-> tm, pace |-> pa]

GymLog(id, ts)    == LogRecord(id, "e1", "A", 60, Absent, TRUE, ts, "none", Absent, Absent)
CardioLog(id, ts) == LogRecord(id, "e2", "running", 5, Absent, TRUE, ts, "cardio", 1800, 6)

\* What spreading a one-character string yields: none of the fields.
CharLog == LogRecord(Absent, "none", "none", Absent, Absent, FALSE, Absent, "none", Absent, Absent)

\* Date.now(): some reading of the clock
Clock == {9}

EmptyStore == [k \in {} |-> 0]

\* ------------------------------------------------------------------------
\* Backup documents

\* A field of a backup document is a list, or is absent (undefined, null or
\* another falsy value), or is a non-empty string (truthy and iterable, but
\* no list), or is an object or number (truthy and not iterable).
ListField(items) == [kind |-> "list", items |-> items]
AbsentField      == [kind |-> "absent", items |-> <<>>]
StringField      == [kind |-> "string", items |-> <<>>]
ObjectField      == [kind |-> "object", items |-> <<>>]

BackupData(ex, lg) == [exercises |-> ex, workoutLogs |-> lg]

\* !field
Falsy(field) == field.kind = "absent"

\* Whether for (... of field) can iterate the field.
Iterable(field) == field.kind \in {"list", "string"}

\* The values for (const exercise of field) yields: the entries of a list,
\* the characters of a string (a character has neither id nor name).
ExerciseEntries(field) ==
  IF field.kind = "list" THEN field.items
  ELSE IF field.kind = "string" THEN <<ExerciseItem("none", "none")>>
  ELSE <<>>

\* The values for (const log of field) yields.
LogEntries(field) ==
  IF field.kind = "list" THEN field.items
  ELSE IF field.kind = "string" THEN <<CharLog>>
  ELSE <<>>

\* ------------------------------------------------------------------------
\* Write primitives

\* store.put(exercise) on the exercises collection (keyPath 'id', no key
\* generator): the request fails when no key can be extracted from the
\* value; a value without name is stored (the name index skips it).
PutExerciseAcceptsIdAndName(exercise) ==
  exercise # NullItem /\ exercise.id # "none" /\ exercise.name # "none"

PutExerciseAccepts(exercise) == exercise # NullItem /\ exercise.id # "none"

\* saveExercise: upsert by id.
saveExercise(ex, exercise) ==
  IF PutExerciseAccepts(exercise)
  THEN [ok |-> TRUE,
        exercises |-> [k \in DOMAIN ex \cup {exercise.id} |->
                         IF k = exercise.id THEN exercise ELSE ex[k]]]
  ELSE [ok |-> FALSE, exercises |-> ex]

\* store.put(logEntry), were it used on the workoutLogs collection: an
\* entry carrying the id of a stored record replaces that record.
PutLog(lg, kg, entry) ==
  IF entry.id # Absent
  THEN [ok |-> TRUE, key |-> entry.id,
        logs |-> [k \in DOMAIN lg \cup {entry.id} |->
                    IF k = entry.id THEN entry ELSE lg[k]],
        keyGen |-> IF entry.id >= kg THEN entry.id + 1 ELSE kg]
  ELSE [ok |-> TRUE, key |-> kg,
        logs |-> (kg :> [entry EXCEPT !.id = kg]) @@ lg,
        keyGen |-> kg + 1]

\* store.add(logEntry), were the entry's own id dropped before the add:
\* every entry gets the generator's key.
AddLogWithoutId(lg, kg, entry) ==
  [ok |-> TRUE, key |-> kg,
   logs |-> (kg :> [entry EXCEPT !.id = kg]) @@ lg,
   keyGen |-> kg + 1]

\* store.add(logEntry) on the workoutLogs collection (keyPath 'id',
\* autoIncrement): an entry carrying an id is stored under it unless a
\* record with that id exists (the request then fails), and the key
\* generator moves past it; an entry without id gets the generator's key.
AddLog(lg, kg, entry) ==
  IF entry.id # Absent
  THEN IF entry.id \in DOMAIN lg
       THEN [ok |-> FALSE, key |-> entry.id, logs |-> lg, keyGen |-> kg]
       ELSE [ok |-> TRUE, key |-> entry.id,
             logs |-> (entry.id :> entry) @@ lg,
             keyGen |-> IF entry.id >= kg THEN entry.id + 1 ELSE kg]
  ELSE [ok |-> TRUE, key |-> kg,
        logs |-> (kg :> [entry EXCEPT !.id = kg]) @@ lg,
        keyGen |-> kg + 1]

\* saveWorkoutLog: { ...entry, timestamp: Date.now() }, then store.add.
saveWorkoutLog(lg, kg, entry, now) ==
  AddLog(lg, kg, [entry EXCEPT !.timestamp = now])

\* ------------------------------------------------------------------------
\* importBackup

\* timestamp: Date.now(), whatever the document says
ImportTimestampNow(log, now) == now

\* timestamp: log.timestamp || Date.now()
ImportTimestamp(log, now) ==
  IF log.timestamp # Absent /\ log.timestamp # 0 THEN log.timestamp ELSE now

\* The loop over backupData.exercises. A failed saveExercise is caught and
\* the loop goes on, but the handler reads exercise.id to log the failure:
\* on a null entry that read throws, and the exception leaves the loop.
\* trace lists, for each entry the loop reached, whether its write succeeded.
RECURSIVE ImportExercises(_, _, _, _)
ImportExercises(ex, items, n, trace) ==
  IF items = <<>>
  THEN [exercises |-> ex, count |-> n, thrown |-> FALSE, trace |-> trace]
  ELSE LET r == saveExercise(ex, Head(items)) IN
       IF r.ok
       THEN ImportExercises(r.exercises, Tail(items), n + 1, Append(trace, TRUE))
       ELSE IF Head(items) = NullItem
            THEN [exercises |-> ex, count |-> n, thrown |-> TRUE,
                  trace |-> Append(trace, FALSE)]
            ELSE ImportExercises(ex, Tail(items), n, Append(trace, FALSE))

\* The loop over backupData.workoutLogs: each entry is added with its own
\* id and timestamp; a failed add is caught and the loop goes on.
\* trace lists, for each entry, the key it was written under (Absent when
\* the write failed).
RECURSIVE ImportLogs(_, _, _, _, _, _, _)
ImportLogs(lg, kg, ord, items, now, n, trace) ==
  IF items = <<>>
  THEN [logs |-> lg, keyGen |-> kg, order |-> ord, count |-> n, trace |-> trace]
  ELSE LET log == Head(items)
           r == AddLog(lg, kg, [log EXCEPT !.timestamp = ImportTimestamp(log, now)])
       IN IF r.ok
          THEN ImportLogs(r.logs, r.keyGen, Append(ord, r.key), Tail(items), now,
                          n + 1, Append(trace, r.key))
          ELSE ImportLogs(lg, kg, ord, Tail(items), now, n, Append(trace, Absent))

ImportResult(ok, nEx, nLogs) ==
  [op |-> "importBackup", success |-> ok, exercisesImported |-> nEx,
   workoutLogsImported |-> nLogs, id |-> Absent, entries |-> <<>>]

\* importBackup(backupData), on an opened database.
importBackup(ex, lg, kg, ord, doc, now) ==
  LET unchanged == [exercises |-> ex, logs |-> lg, keyGen |-> kg, order |-> ord,
                    ret |-> ImportResult(FALSE, 0, 0),
                    exTrace |-> <<>>, logTrace |-> <<>>]
  IN
  IF Falsy(doc.exercises) \/ Falsy(doc.workoutLogs) THEN unchanged
  ELSE IF ~Iterable(doc.exercises) THEN unchanged
  ELSE LET E == ImportExercises(ex, ExerciseEntries(doc.exercises), 0, <<>>) IN
       IF E.thrown \/ ~Iterable(doc.workoutLogs)
       THEN [unchanged EXCEPT !.exercises = E.exercises, !.exTrace = E.trace]
       ELSE LET L == ImportLogs(lg, kg, ord, LogEntries(doc.workoutLogs), now, 0, <<>>)
            IN [exercises |-> E.exercises, logs |-> L.logs, keyGen |-> L.keyGen,
                order |-> L.order,
                ret |-> ImportResult(TRUE, E.count, L.count),
                exTrace |-> E.trace, logTrace |-> L.trace]

\* ------------------------------------------------------------------------
\* Queries and export

Max(S) == CHOOSE x \in S : \A y \in S : y <= x
Min(S) == CHOOSE x \in S : \A y \in S : x <= y

\* getAll() returns the records in key order; sort((a, b) => b.timestamp -
\* a.timestamp) orders them by timestamp, newest first, and keeps the key
\* order of records with equal timestamps.
RECURSIVE SortByTimestampDesc(_, _)
SortByTimestampDesc(lg, keys) ==
  IF keys = {} THEN <<>>
  ELSE LET top == Max({lg[k].timestamp : k \in keys})
           k0  == Min({k \in keys : lg[k].timestamp = top})
       IN <<lg[k0]>> \o SortByTimestampDesc(lg, keys \ {k0})

getAllWorkoutLogs(lg) == SortByTimestampDesc(lg, DOMAIN lg)

\* getAllExercises: store.getAll(), in key order ("e1" before "e2").
getAllExercises(ex) ==
  (IF "e1" \in DOMAIN ex THEN <<ex["e1"]>> ELSE <<>>)
    \o (IF "e2" \in DOMAIN ex THEN <<ex["e2"]>> ELSE <<>>)

\* exportBackup (version and exportDate are not read by importBackup)
exportBackup(ex, lg) ==
  BackupData(ListField(getAllExercises(ex)), ListField(getAllWorkoutLogs(lg)))

\* The record an index cursor opened with direction 'next' is positioned on.
CursorNext(keys) == Min(keys)

\* The record an index cursor opened with direction 'prev' is positioned on:
\* among the index records of one exerciseId, the one with the greatest id.
CursorPrev(keys) == Max(keys)

\* index.openCursor(IDBKeyRange.only(exerciseId), 'prev'), pushing entries
\* while the cursor has a record and entries.length < limit.
RECURSIVE CollectEntries(_, _, _, _)
CollectEntries(lg, keys, entries, limit) ==
  IF keys # {} /\ Len(entries) < limit
  THEN LET k == CursorPrev(keys)
       IN CollectEntries(lg, keys \ {k}, Append(entries, lg[k]), limit)
  ELSE entries

IndexKeys(lg, exerciseId) == {k \in DOMAIN lg : lg[k].exerciseId = exerciseId}

getLastNExerciseEntries(lg, exerciseId, limit) ==
  CollectEntries(lg, IndexKeys(lg, exerciseId), <<>>, limit)

\* getLastExerciseEntry: the record the cursor opens on, or null (here the
\* empty sequence).
getLastExerciseEntry(lg, exerciseId) ==
  IF IndexKeys(lg, exerciseId) # {}
  THEN <<lg[CursorPrev(IndexKeys(lg, exerciseId))]>>
  ELSE <<>>

\* ------------------------------------------------------------------------
\* Inputs

Lists(S, n) == UNION {[1..m -> S] : m \in 0..n}

\* What AppContent saves for a step of the session catalog.
SessionExercises == {ExerciseItem("e1", "Bench press")}

\* What the session view saves for an exercise (a gym entry) and what the
\* session list saves for a run (a cardio entry); id and timestamp are not
\* part of the entry.
SessionEntries == {GymLog(Absent, Absent), CardioLog(Absent, Absent)}

\* Entries of the exercises list of a document: well-formed ones, one
\* without name, one without id, and null.
DocExercises ==
  {ExerciseItem("e1", "Bench"), ExerciseItem("e2", "none"),
   ExerciseItem("none", "Row"), NullItem}

\* Entries of the workoutLogs list of a document: without id, with id 1 and
\* with id 2; with timestamp 1, with timestamp 0 and without timestamp.
DocLogs == {GymLog(Absent, 1), GymLog(1, 0), GymLog(2, Absent)}

NonLists == {AbsentField, StringField, ObjectField}

\* Documents whose exercises list varies
DocsByExercises ==
  {BackupData(ListField(l), ListField(<<>>)) : l \in Lists(DocExercises, MaxDocLen)}

\* Documents whose workoutLogs list varies
DocsByLogs ==
  {BackupData(ListField(<<>>), ListField(l)) : l \in Lists(DocLogs, MaxDocLen)}

\* Documents with a field that is no list
DocsMalformed ==
  {BackupData(e, l) :
     e \in {ListField(<<ExerciseItem("e1", "Bench")>>)} \cup NonLists,
     l \in {ListField(<<GymLog(Absent, 1)>>)} \cup NonLists}
    \ {BackupData(ListField(<<ExerciseItem("e1", "Bench")>>), ListField(<<GymLog(Absent, 1)>>))}

Docs == DocsByExercises \cup DocsByLogs \cup DocsMalformed

Limits == 0..MaxLogs

\* ------------------------------------------------------------------------
\* The store, once opened

Result(name, id, entries) ==
  [op |-> name, success |-> TRUE, exercisesImported |-> 0,
   workoutLogsImported |-> 0, id |-> id, entries |-> entries]

\* The collections added by later versions start empty; the statistics are
\* not asked for.
InitApp ==
  /\ localStorage = EmptyStore
  /\ notification = [showNotification |-> FALSE, isDownloading |-> FALSE, error |-> "null"]
  /\ sessionView = [shown |-> FALSE, sessionEntries |-> EmptyStore, isSaving |-> FALSE,
                    saveError |-> "null"]
  /\ caches = EmptyStore
  /\ worker = "none"
  /\ online = TRUE
  /\ loadedOnline = FALSE

InitExt ==
  /\ InitApp
  /\ clock = 0
  /\ calendar = <<>>
  /\ utcOffset = 0
  /\ bodyWeight = EmptyStore
  /\ bwKeyGen = 1
  /\ userProfile = EmptyStore
  /\ coachFeedback = EmptyStore
  /\ cfKeyGen = 1
  /\ arg = <<>>

\* A new database, opened by the first caller (the useIndexedDB hook).
Init ==
  /\ exercises = EmptyStore
  /\ logs = EmptyStore
  /\ keyGen = 1
  /\ order = <<>>
  /\ ret = Result("initDB", Absent, <<>>)
  /\ dbVersion = DB_VERSION
  /\ oldVersion = 0
  /\ dbInstance = 1
  /\ openReqs = <<[owner |-> 1, state |-> "success"]>>
  /\ upgrade = "none"
  /\ cursor = <<>>
  /\ pc = [c \in Callers |-> IF c = 1 THEN "done" ELSE "idle"]
  /\ op = [c \in Callers |-> "initDB"]
  /\ handle = [c \in Callers |-> IF c = 1 THEN 1 ELSE 0]
  /\ orig = EmptyStore
  /\ InitExt

SaveExercise ==
  \E x \in SessionExercises :
    /\ exercises' = saveExercise(exercises, x).exercises
    /\ ret' = Result("saveExercise", Absent, <<>>)
    /\ UNCHANGED <<logs, keyGen, order, openVars, extVars>>

SaveWorkoutLog ==
  \E entry \in SessionEntries, now \in Clock :
    LET r == saveWorkoutLog(logs, keyGen, entry, now) IN
    /\ Cardinality(DOMAIN logs) < MaxLogs
    /\ logs' = r.logs
    /\ keyGen' = r.keyGen
    /\ order' = Append(order, r.key)
    /\ ret' = Result("saveWorkoutLog", r.key, <<>>)
    /\ UNCHANGED <<exercises, openVars, extVars>>

\* importBackup(doc) at clock reading now
ImportBackupOf(doc, now) ==
  LET r == importBackup(exercises, logs, keyGen, order, doc, now) IN
  /\ Cardinality(DOMAIN r.logs) <= MaxLogs
  /\ exercises' = r.exercises
  /\ logs' = r.logs
  /\ keyGen' = r.keyGen
  /\ order' = r.order
  /\ ret' = r.ret
  /\ UNCHANGED <<openVars, extVars>>

ImportBackup == \E doc \in Docs, now \in Clock : ImportBackupOf(doc, now)

ExportBackup ==
  /\ ret' = Result("exportBackup", Absent, exportBackup(exercises, logs).workoutLogs.items)
  /\ UNCHANGED <<exercises, logs, keyGen, order, openVars, extVars>>

\* importBackup of the document exportBackup has just returned
ImportExported ==
  /\ ret.op = "exportBackup"
  /\ \E now \in Clock :
       LET r == importBackup(exercises, logs, keyGen, order, exportBackup(exercises, logs), now) IN
       /\ exercises' = r.exercises
       /\ logs' = r.logs
       /\ keyGen' = r.keyGen
       /\ order' = r.order
       /\ ret' = [r.ret EXCEPT !.op = "importExported"]
  /\ UNCHANGED <<openVars, extVars>>

GetLastNExerciseEntries ==
  \E e \in ExerciseIds, n \in Limits :
    /\ ret' = Result("getLastNExerciseEntries", Absent, getLastNExerciseEntries(logs, e, n))
    /\ UNCHANGED <<exercises, logs, keyGen, order, openVars, extVars>>

GetLastExerciseEntry ==
  \E e \in ExerciseIds :
    /\ ret' = Result("getLastExerciseEntry", Absent, getLastExerciseEntry(logs, e))
    /\ UNCHANGED <<exercises, logs, keyGen, order, openVars, extVars>>

Next ==
  \/ SaveExercise
  \/ SaveWorkoutLog
  \/ ImportBackup
  \/ ExportBackup
  \/ ImportExported

Spec == Init /\ [][Next]_vars

\* The workoutLogs collection and its queries
ImportLogsOnly == \E doc \in DocsByLogs, now \in Clock : ImportBackupOf(doc, now)

NextQuery ==
  \/ SaveWorkoutLog
  \/ ImportLogsOnly
  \/ GetLastNExerciseEntries
  \/ GetLastExerciseEntry

SpecQuery == Init /\ [][NextQuery]_vars

\* ------------------------------------------------------------------------
\* Opening the database: initDB and the upgrade

HasWeight(entry) == entry.weight # Absent
HasValue(entry)  == entry.value # Absent

\* value: entry.weight, without the delete of weight
MigrateEntryKeepWeight(entry) ==
  IF HasWeight(entry) /\ ~HasValue(entry)
  THEN [entry EXCEPT !.value = entry.weight]
  ELSE entry

\* What the migration cursor leaves at an entry: an entry with weight and
\* without value is rewritten with value = weight and weight deleted.
MigrateEntry(entry) ==
  IF HasWeight(entry) /\ ~HasValue(entry)
  THEN [entry EXCEPT !.value = entry.weight, !.weight = Absent]
  ELSE entry

\* A whole run of the migration cursor over a collection.
MigrateStore(lg) == [k \in DOMAIN lg |-> MigrateEntry(lg[k])]

\* oldVersion < 2 (the workoutLogs collection exists by then)
NeedsMigration(old) == old < 2

\* dbInstance = db, were onupgradeneeded to publish the connection
UpgradeNeededPublishes(inst, conn) == conn

\* onupgradeneeded keeps the connection in a local: dbInstance is not set.
UpgradeNeededInstance(inst, conn) == inst

\* A record written by database version 1 (weight, no value), one carrying
\* both fields, and one carrying value only.
StoredLog(id, wt, val) == LogRecord(id, "e1", "A", val, wt, TRUE, 1, "none", Absent, Absent)

LegacyShapes  == {<<60, Absent>>, <<60, 70>>, <<Absent, 70>>}
CurrentShapes == {<<60, 70>>, <<Absent, 70>>}

StoresOver(shapes) ==
  UNION {{[k \in 1..n |-> StoredLog(k, f[k][1], f[k][2])] : f \in [1..n -> shapes]} :
           n \in 0..MaxLegacy}

StoresAt(version) ==
  IF version = 0 THEN {EmptyStore}
  ELSE IF version = 1 THEN StoresOver(LegacyShapes)
  ELSE StoresOver(CurrentShapes)

RECURSIVE SortedKeys(_)
SortedKeys(S) == IF S = {} THEN <<>> ELSE <<Min(S)>> \o SortedKeys(S \ {Min(S)})

CallerOps == {"initDB", "saveWorkoutLog", "getLastExerciseEntry"}

\* A process starts on a database that does not exist yet, or on one of
\* version 1, 2 or 6.
InitOpen ==
  /\ dbVersion \in {0, 1, 2, DB_VERSION}
  /\ logs \in StoresAt(dbVersion)
  /\ orig = logs
  /\ keyGen = Cardinality(DOMAIN logs) + 1
  /\ order = SortedKeys(DOMAIN logs)
  /\ exercises = EmptyStore
  /\ ret = Result("none", Absent, <<>>)
  /\ oldVersion = Absent
  /\ dbInstance = 0
  /\ openReqs = <<>>
  /\ upgrade = "none"
  /\ cursor = <<>>
  /\ pc = [c \in Callers |-> "idle"]
  /\ op = [c \in Callers |-> "none"]
  /\ handle = [c \in Callers |-> 0]
  /\ InitExt

\* The open request the engine is serving: the oldest one not finished.
HeadReq ==
  LET open == {i \in 1..Len(openReqs) : openReqs[i].state \in {"pending", "upgrading"}}
  IN IF open = {} THEN 0 ELSE Min(open)

\* A caller invokes a store operation, which awaits initDB(): the promise
\* resolves with dbInstance when it is set, else indexedDB.open is called.
Call(c) ==
  /\ pc[c] = "idle"
  /\ \E o \in CallerOps : op' = [op EXCEPT ![c] = o]
  /\ IF dbInstance # 0
     THEN /\ handle' = [handle EXCEPT ![c] = dbInstance]
          /\ pc' = [pc EXCEPT ![c] = "ready"]
          /\ UNCHANGED openReqs
     ELSE /\ openReqs' = Append(openReqs, [owner |-> c, state |-> "pending"])
          /\ pc' = [pc EXCEPT ![c] = "waiting"]
          /\ UNCHANGED handle
  /\ UNCHANGED <<storeVars, dbVersion, oldVersion, dbInstance, upgrade, cursor, orig, extVars>>

\* request.onupgradeneeded: the collections are created and, for
\* oldVersion < 2, the migration cursor is opened.
UpgradeNeeded ==
  /\ HeadReq # 0
  /\ openReqs[HeadReq].state = "pending"
  /\ dbVersion < DB_VERSION
  /\ oldVersion' = dbVersion
  /\ dbVersion' = DB_VERSION
  /\ openReqs' = [openReqs EXCEPT ![HeadReq].state = "upgrading"]
  /\ IF NeedsMigration(dbVersion)
     THEN upgrade' = "migrating" /\ cursor' = SortedKeys(DOMAIN logs)
     ELSE upgrade' = "complete" /\ cursor' = <<>>
  /\ dbInstance' = UpgradeNeededInstance(dbInstance, HeadReq)
  /\ UNCHANGED <<storeVars, pc, op, handle, orig, extVars>>

\* The cursor request's onsuccess: update the entry and continue, or, at
\* the end of the collection, place no further request.
MigrateStep ==
  /\ upgrade = "migrating"
  /\ IF cursor # <<>>
     THEN /\ logs' = [logs EXCEPT ![Head(cursor)] = MigrateEntry(@)]
          /\ cursor' = Tail(cursor)
          /\ UNCHANGED upgrade
     ELSE /\ upgrade' = "complete"
          /\ UNCHANGED <<logs, cursor>>
  /\ UNCHANGED <<exercises, keyGen, order, ret, dbVersion, oldVersion, dbInstance,
                 openReqs, pc, op, handle, orig, extVars>>

\* request.onsuccess, which the engine fires once the database has the
\* requested version and the upgrade transaction, if any, has finished.
OpenSuccess ==
  /\ HeadReq # 0
  /\ IF openReqs[HeadReq].state = "pending"
     THEN dbVersion = DB_VERSION
     ELSE upgrade = "complete"
  /\ openReqs' = [openReqs EXCEPT ![HeadReq].state = "success"]
  /\ dbInstance' = HeadReq
  /\ handle' = [handle EXCEPT ![openReqs[HeadReq].owner] = HeadReq]
  /\ pc' = [pc EXCEPT ![openReqs[HeadReq].owner] = "ready"]
  /\ upgrade' = "none"
  /\ UNCHANGED <<storeVars, dbVersion, oldVersion, cursor, op, orig, extVars>>

\* request.onerror: the open fails and the caller's promise is rejected.
OpenError ==
  /\ HeadReq # 0
  /\ openReqs[HeadReq].state = "pending"
  /\ openReqs' = [openReqs EXCEPT ![HeadReq].state = "error"]
  /\ pc' = [pc EXCEPT ![openReqs[HeadReq].owner] = "failed"]
  /\ UNCHANGED <<storeVars, dbVersion, oldVersion, dbInstance, upgrade, cursor, op,
                 handle, orig, extVars>>

\* The caller's operation runs its transaction on the connection it got.
Run(c) ==
  /\ pc[c] = "ready"
  /\ pc' = [pc EXCEPT ![c] = "done"]
  /\ IF op[c] = "saveWorkoutLog"
     THEN \E entry \in SessionEntries, now \in Clock :
            LET r == saveWorkoutLog(logs, keyGen, entry, now) IN
            /\ logs' = r.logs
            /\ keyGen' = r.keyGen
            /\ order' = Append(order, r.key)
            /\ ret' = Result("saveWorkoutLog", r.key, <<>>)
     ELSE IF op[c] = "getLastExerciseEntry"
     THEN /\ \E e \in ExerciseIds :
               ret' = Result("getLastExerciseEntry", Absent, getLastExerciseEntry(logs, e))
          /\ UNCHANGED <<logs, keyGen, order>>
     ELSE UNCHANGED <<logs, keyGen, order, ret>>
  /\ UNCHANGED <<exercises, dbVersion, oldVersion, dbInstance, openReqs, upgrade,
                 cursor, op, handle, orig, extVars>>

NextOpen ==
  \/ \E c \in Callers : Call(c)
  \/ UpgradeNeeded
  \/ MigrateStep
  \/ OpenSuccess
  \/ OpenError
  \/ \E c \in Callers : Run(c)

SpecOpen == InitOpen /\ [][NextOpen]_vars

\* ------------------------------------------------------------------------
\* Local time.  Instants are hours.  The calendar gives the length of each
\* local day: 24 hours, or 23 or 25 on the day the time zone changes its
\* offset, which here is yesterday or no day.  Day Len(cal) is today; the
\* days before the calendar are not used.

oneDay == 24

DayLengths == {23, 24, 25}

Calendars ==
  {cal \in [1..NumDays -> DayLengths] :
     \A d \in 1..NumDays : d # NumDays - 1 => cal[d] = oneDay}

\* The instant of local midnight at the start of day d
\* (new Date(year, month, day).getTime()).
RECURSIVE Midnight(_, _)
Midnight(cal, d) == IF d <= 1 THEN 0 ELSE Midnight(cal, d - 1) + cal[d - 1]

\* The local calendar day of an instant (getFullYear, getMonth, getDate).
DayOf(cal, t) ==
  CHOOSE d \in 1..Len(cal) : Midnight(cal, d) <= t /\ t < Midnight(cal, d + 1)

\* date.setHours(0, 0, 0, 0)
StartOfDay(cal, t) == Midnight(cal, DayOf(cal, t))

Today(cal) == Len(cal)

\* The first and the last hour of every day of the calendar.
Instants(cal) ==
  {Midnight(cal, d) + o : d \in 1..Len(cal), o \in {0}} \cup
  {Midnight(cal, d) + cal[d] - 1 : d \in 1..Len(cal)}

\* ------------------------------------------------------------------------
\* Statistics over the workout logs

\* The ids of the exercises of the session catalog; the exerciseId of a
\* cardio log ("e2") is none of them.
CatalogExercises == {"e1"}

\* sessionNameMap.get(sessionId) || `Session ${sessionId}`
SessionName(sessionId) ==
  IF sessionId = "A" THEN "PASS A - Upper Body" ELSE "Session " \o sessionId

\* `${date.getFullYear()}-${date.getMonth()}-${date.getDate()}-${log.sessionId}`
DateKeyWithoutSession(cal, log) == <<DayOf(cal, log.timestamp), "any">>
DateKey(cal, log) == <<DayOf(cal, log.timestamp), log.sessionId>>

\* log.timestamp >= daysAgo
WithinDays(timestamp, daysAgo) == timestamp >= daysAgo

getWorkoutCountInDays(list, days, cal, t) ==
  LET daysAgo    == t - days * oneDay
      recentLogs == {i \in 1..Len(list) : WithinDays(list[i].timestamp, daysAgo)}
  IN Cardinality({DateKey(cal, list[i]) : i \in recentLogs})

\* log.timestamp < existing.timestamp
ReplacesWhenLater(timestamp, existing) == timestamp > existing
ReplacesExisting(timestamp, existing) == timestamp < existing

\* The position of a key in the session map (0: not in it).
KeyIndex(sessionMap, key) ==
  IF \E i \in 1..Len(sessionMap) : sessionMap[i].key = key
  THEN CHOOSE i \in 1..Len(sessionMap) : sessionMap[i].key = key
  ELSE 0

\* logs.forEach of getCompletedSessions: the session map, in the order its
\* keys were first set.
RECURSIVE GroupCompleted(_, _, _, _)
GroupCompleted(list, cal, n, sessionMap) ==
  IF n > Len(list) THEN sessionMap
  ELSE LET log == list[n]
           key == DateKey(cal, log)
           i   == KeyIndex(sessionMap, key)
       IN IF ~log.completed
          THEN GroupCompleted(list, cal, n + 1, sessionMap)
          ELSE IF i = 0
          THEN GroupCompleted(list, cal, n + 1,
                 Append(sessionMap, [key |-> key, sessionId |-> log.sessionId,
                                     timestamp |-> log.timestamp]))
          ELSE IF ReplacesExisting(log.timestamp, sessionMap[i].timestamp)
          THEN GroupCompleted(list, cal, n + 1,
                 [sessionMap EXCEPT ![i].timestamp = log.timestamp])
          ELSE GroupCompleted(list, cal, n + 1, sessionMap)

\* Remove the i-th element of a sequence.
Without(seq, i) == [j \in 1..(Len(seq) - 1) |-> IF j < i THEN seq[j] ELSE seq[j + 1]]

\* sort((a, b) => b.timestamp - a.timestamp): newest first, elements with
\* equal timestamps in the order they had.
RECURSIVE SortDesc(_)
SortDesc(seq) ==
  IF seq = <<>> THEN <<>>
  ELSE LET top == Max({seq[i].timestamp : i \in 1..Len(seq)})
           i0  == Min({i \in 1..Len(seq) : seq[i].timestamp = top})
       IN <<seq[i0]>> \o SortDesc(Without(seq, i0))

getCompletedSessions(list, cal) ==
  LET sessionMap == GroupCompleted(list, cal, 1, <<>>)
  IN SortDesc([i \in 1..Len(sessionMap) |->
                 [sessionId   |-> sessionMap[i].sessionId,
                  sessionName |-> SessionName(sessionMap[i].sessionId),
                  timestamp   |-> sessionMap[i].timestamp]])

\* The dates of the sessions as local midnights, newest first
\* (uniqueDates, sortedDates).
RECURSIVE SortedDates(_, _)
SortedDates(cal, days) ==
  IF days = {} THEN <<>>
  ELSE <<Midnight(cal, Max(days))>> \o SortedDates(cal, days \ {Max(days)})

\* The streak loop: for (const workoutDate of sortedDates) ...
RECURSIVE StreakLoop(_, _, _, _)
StreakLoop(sortedDates, n, currentDate, consecutiveDays) ==
  IF n > Len(sortedDates) THEN consecutiveDays
  ELSE LET diffDays == (currentDate - sortedDates[n]) \div oneDay
       IN IF diffDays = consecutiveDays
          THEN StreakLoop(sortedDates, n + 1, sortedDates[n], consecutiveDays + 1)
          ELSE consecutiveDays

\* Math.floor(diffTime / oneDay) of the first session of the list
DaysSinceFirstOfList(completedSessions, cal, todayStart) ==
  (todayStart - StartOfDay(cal, completedSessions[1].timestamp)) \div oneDay

getWorkoutStatus(completedSessions, cal, t) ==
  LET todayStart     == StartOfDay(cal, t)
      todayEnd       == todayStart + oneDay
      yesterdayStart == Midnight(cal, DayOf(cal, t) - 1)
      yesterdayEnd   == yesterdayStart + oneDay
      stamps         == {completedSessions[i].timestamp : i \in 1..Len(completedSessions)}
      uniqueDates    == {DayOf(cal, s) : s \in stamps}
  IN [hasWorkoutToday      |-> \E s \in stamps : s >= todayStart /\ s < todayEnd,
      hasWorkoutYesterday  |-> \E s \in stamps : s >= yesterdayStart /\ s < yesterdayEnd,
      daysSinceLastWorkout |-> IF Len(completedSessions) > 0
                               THEN DaysSinceFirstOfList(completedSessions, cal, todayStart)
                               ELSE 999,
      streak               |-> IF Len(completedSessions) > 0
                               THEN StreakLoop(SortedDates(cal, uniqueDates), 1, todayStart, 0)
                               ELSE 0]

\* The progression of one exercise of the catalog: the completed logs of
\* the exercise, newest first; current and previous (Absent: null).
CompletedLogsOf(list, exerciseId) ==
  SortDesc(SelectSeq(list, LAMBDA log : log.exerciseId = exerciseId /\ log.completed))

\* previous !== null && current > previous
NotLower(current, previous) == previous # Absent /\ current >= previous
Reportable(current, previous) == previous # Absent /\ current > previous

\* progressionMap: exercise id -> current and previous, for the exercises
\* the dashboard reports.
progressionMap(list) ==
  LET Current(e)  == CompletedLogsOf(list, e)[1].value
      Previous(e) == IF Len(CompletedLogsOf(list, e)) > 1
                     THEN CompletedLogsOf(list, e)[2].value ELSE Absent
      reported    == {e \in CatalogExercises :
                        /\ Len(CompletedLogsOf(list, e)) > 0
                        /\ Reportable(Current(e), Previous(e))}
  IN [e \in reported |-> [current |-> Current(e), previous |-> Previous(e)]]

\* ------------------------------------------------------------------------
\* The statistics, asked for on a store that was filled earlier

StatResult(name, value) == [op |-> name, value |-> value]

\* The logs of a history: a gym entry, a gym entry that was not completed
\* and a run, at the first and the last hour of each day.
StatSamples(cal) ==
  UNION {{GymLog(Absent, t), [GymLog(Absent, t) EXCEPT !.completed = FALSE],
          CardioLog(Absent, t)} : t \in Instants(cal)}

\* The subsets of S of at most k elements
RECURSIVE KSubsets(_, _)
KSubsets(S, k) ==
  IF k = 0 THEN {{}}
  ELSE LET smaller == KSubsets(S, k - 1)
       IN smaller \cup {s \cup {x} : s \in smaller, x \in S}

\* saveWorkoutLog stamps a log with Date.now(): the logs of a history in
\* the order of their timestamps.
RECURSIVE Chronological(_)
Chronological(S) ==
  IF S = {} THEN <<>>
  ELSE LET first == CHOOSE x \in S : \A y \in S : x.timestamp <= y.timestamp
       IN <<first>> \o Chronological(S \ {first})

\* The workoutLogs collection after the entries of a sequence were added to
\* a new database.
StoreOf(entries) == [i \in 1..Len(entries) |-> [entries[i] EXCEPT !.id = i]]

\* An opened database that holds the logs of a history.
InitStore(entries) ==
  /\ logs = StoreOf(entries)
  /\ keyGen = Len(entries) + 1
  /\ order = [i \in 1..Len(entries) |-> i]
  /\ exercises = EmptyStore
  /\ ret = StatResult("none", <<>>)
  /\ dbVersion = DB_VERSION
  /\ oldVersion = 0
  /\ dbInstance = 1
  /\ openReqs = <<[owner |-> 1, state |-> "success"]>>
  /\ upgrade = "none"
  /\ cursor = <<>>
  /\ pc = [c \in Callers |-> IF c = 1 THEN "done" ELSE "idle"]
  /\ op = [c \in Callers |-> "initDB"]
  /\ handle = [c \in Callers |-> IF c = 1 THEN 1 ELSE 0]
  /\ orig = EmptyStore
  /\ bodyWeight = EmptyStore
  /\ bwKeyGen = 1
  /\ userProfile = EmptyStore
  /\ coachFeedback = EmptyStore
  /\ cfKeyGen = 1

\* The statistics are asked for in the last hour of today.
InitStats ==
  /\ InitApp
  /\ arg = <<>>
  /\ calendar \in Calendars
  /\ utcOffset = 0
  /\ clock = Midnight(calendar, Today(calendar) + 1) - 1
  /\ \E S \in KSubsets(StatSamples(calendar), MaxLogs) : InitStore(Chronological(S))

\* The list the components pass: const allLogs = await getAllLogs()
allLogs == getAllWorkoutLogs(logs)

GetCompletedSessions ==
  /\ arg' = <<>>
  /\ ret' = StatResult("getCompletedSessions", getCompletedSessions(allLogs, calendar))
  /\ UNCHANGED <<exercises, logs, keyGen, order, openVars, clockVars, sideVars, appVars>>

GetWorkoutStatus ==
  /\ ret' = StatResult("getWorkoutStatus",
              getWorkoutStatus(getCompletedSessions(allLogs, calendar), calendar, clock))
  /\ arg' = <<>>
  /\ UNCHANGED <<exercises, logs, keyGen, order, openVars, clockVars, sideVars, appVars>>

GetWorkoutCountInDays ==
  \E days \in 0..NumDays :
    /\ arg' = days
    /\ ret' = StatResult("getWorkoutCountInDays",
                getWorkoutCountInDays(allLogs, days, calendar, clock))
    /\ UNCHANGED <<exercises, logs, keyGen, order, openVars, clockVars, sideVars, appVars>>

NextStats ==
  \/ GetCompletedSessions
  \/ GetWorkoutStatus
  \/ GetWorkoutCountInDays

SpecStats == InitStats /\ [][NextStats]_vars

\* The progressions of the dashboard.  The logs of an exercise of the
\* catalog and of one outside it, with two values, completed or not, in any
\* order of insertion (a backup can be imported in any order).
ProgressSamples ==
  {LogRecord(Absent, e, "A", v, Absent, done, t, "none", Absent, Absent) :
     e \in ExerciseIds, v \in {60, 65}, done \in BOOLEAN, t \in {1, 2}}

InitProgress ==
  /\ InitApp
  /\ arg = <<>>
  /\ calendar = <<>>
  /\ utcOffset = 0
  /\ clock = 2
  /\ \E entries \in Lists(ProgressSamples, MaxLogs) : InitStore(entries)

GetProgressions ==
  /\ ret' = StatResult("progressionMap", progressionMap(allLogs))
  /\ UNCHANGED <<exercises, logs, keyGen, order, openVars, extVars>>

NextProgress ==
  \/ GetProgressions

SpecProgress == InitProgress /\ [][NextProgress]_vars

\* ------------------------------------------------------------------------
\* The bodyWeight collection.  A weight is a number of hundredths of a
\* kilogram: 7550 is 75.5 and 7555 is 75.55.

\* weight <= 0
NegativeWeight(weight) == weight < 0
NotPositive(weight) == weight <= 0

\* (weight * 10) % 1 !== 0
MoreThanOneDecimal(weight) == (weight % 10) # 0

BodyWeightEntry(id, weight, timestamp) == [id |-> id, weight |-> weight, timestamp |-> timestamp]

\* What an operation on a side collection returns: the resolved value or
\* the rejection, and whether db.transaction was called.
SideResult(name, success, value, transaction) ==
  [op |-> name, success |-> success, value |-> value, transaction |-> transaction]

\* saveBodyWeight: the validation throws before initDB is awaited; else
\* store.add of an entry without id takes the key of the key generator.
saveBodyWeight(bw, kg, weight, t) ==
  IF NotPositive(weight) \/ MoreThanOneDecimal(weight)
  THEN [bodyWeight |-> bw, keyGen |-> kg,
        ret |-> SideResult("saveBodyWeight", FALSE, Absent, FALSE)]
  ELSE [bodyWeight |-> (kg :> BodyWeightEntry(kg, weight, t)) @@ bw, keyGen |-> kg + 1,
        ret |-> SideResult("saveBodyWeight", TRUE, kg, TRUE)]

\* Weights a caller passes: negative, zero, 75.55, 0.1, 75 and 75.5.
Weights == {-7550, 0, 7555, 10, 7500, 7550}

\* An opened database whose collections are empty.
InitSide ==
  /\ InitApp
  /\ arg = <<>>
  /\ calendar = <<>>
  /\ utcOffset = 0
  /\ clock \in Clock
  /\ InitStore(<<>>)

SaveBodyWeight ==
  \E weight \in Weights :
    LET r == saveBodyWeight(bodyWeight, bwKeyGen, weight, clock) IN
    /\ Cardinality(DOMAIN r.bodyWeight) <= MaxLogs
    /\ bodyWeight' = r.bodyWeight
    /\ bwKeyGen' = r.keyGen
    /\ ret' = r.ret
    /\ arg' = weight
    /\ UNCHANGED <<exercises, logs, keyGen, order, openVars, clockVars, appVars,
                   userProfile, coachFeedback, cfKeyGen>>

NextBodyWeight ==
  \/ SaveBodyWeight

SpecBodyWeight == InitSide /\ [][NextBodyWeight]_vars

\* ------------------------------------------------------------------------
\* The coachFeedback collection.  A string is a sequence of characters.

Whitespace == {" ", "\n"}

RECURSIVE TrimStart(_)
TrimStart(s) == IF s # <<>> /\ Head(s) \in Whitespace THEN TrimStart(Tail(s)) ELSE s

RECURSIVE TrimEnd(_)
TrimEnd(s) ==
  IF s # <<>> /\ s[Len(s)] \in Whitespace THEN TrimEnd(SubSeq(s, 1, Len(s) - 1)) ELSE s

\* String.prototype.trim
trim(s) == TrimEnd(TrimStart(s))

\* feedback: feedback.trim()
FeedbackAsGiven(feedback) == feedback
StoredFeedback(feedback) == trim(feedback)

CoachFeedbackEntry(id, feedback, timestamp) ==
  [id |-> id, feedback |-> feedback, timestamp |-> timestamp]

\* saveCoachFeedback: !feedback || feedback.trim().length === 0 throws
\* before initDB is awaited.
saveCoachFeedback(cf, kg, feedback, t) ==
  IF feedback = <<>> \/ Len(trim(feedback)) = 0
  THEN [coachFeedback |-> cf, keyGen |-> kg,
        ret |-> SideResult("saveCoachFeedback", FALSE, Absent, FALSE)]
  ELSE [coachFeedback |-> (kg :> CoachFeedbackEntry(kg, StoredFeedback(feedback), t)) @@ cf,
        keyGen |-> kg + 1,
        ret |-> SideResult("saveCoachFeedback", TRUE, kg, TRUE)]

\* store.delete(id): the record with that key, if any, is removed.
DeleteFirst(cf, id) == [k \in DOMAIN cf \ {Min(DOMAIN cf \cup {id})} |-> cf[k]]
DeleteKey(cf, id) == [k \in DOMAIN cf \ {id} |-> cf[k]]

deleteCoachFeedback(cf, id) == DeleteKey(cf, id)

\* Texts a caller passes: empty, blank, and texts with and without blanks
\* around them.
Feedbacks ==
  {<<>>, <<" ">>, <<" ", "\n">>, <<"o", "k">>, <<" ", "o", "k">>, <<"o", "k", "\n">>,
   <<"o", " ", "k">>}

SaveCoachFeedback ==
  \E feedback \in Feedbacks :
    LET r == saveCoachFeedback(coachFeedback, cfKeyGen, feedback, clock) IN
    /\ r.keyGen <= MaxLogs + 1
    /\ coachFeedback' = r.coachFeedback
    /\ cfKeyGen' = r.keyGen
    /\ ret' = r.ret
    /\ arg' = feedback
    /\ UNCHANGED <<exercises, logs, keyGen, order, openVars, clockVars, appVars,
                   bodyWeight, bwKeyGen, userProfile>>

DeleteCoachFeedback ==
  \E id \in 1..(MaxLogs + 1) :
    /\ coachFeedback' = deleteCoachFeedback(coachFeedback, id)
    /\ ret' = SideResult("deleteCoachFeedback", TRUE, Absent, TRUE)
    /\ arg' = id
    /\ UNCHANGED <<exercises, logs, keyGen, order, openVars, clockVars, appVars,
                   bodyWeight, bwKeyGen, userProfile, cfKeyGen>>

NextFeedback ==
  \/ SaveCoachFeedback
  \/ DeleteCoachFeedback

SpecFeedback == InitSide /\ [][NextFeedback]_vars

\* ------------------------------------------------------------------------
\* The userProfile collection

\* A profile as a caller passes it; "none" is a field that is not present.
UserProfile(id, goal, facts) == [id |-> id, goal |-> goal, facts |-> facts]

NullProfile == UserProfile("null", "null", "null")

\* profile.goal || '': a missing or empty text is the empty text.
OrEmpty(text) == IF text \in {"none", ""} THEN "" ELSE text

\* id: 'user'
ProfileIdOfArgument(profile) == profile.id
ProfileId(profile) == "user"

\* saveUserProfile: reading profile.goal of null throws in the promise
\* executor, which rejects the promise after db.transaction was called;
\* else store.put replaces or creates the record of the key.
saveUserProfile(up, profile) ==
  IF profile = NullProfile
  THEN [userProfile |-> up, ret |-> SideResult("saveUserProfile", FALSE, Absent, TRUE)]
  ELSE LET profileEntry == UserProfile(ProfileId(profile), OrEmpty(profile.goal),
                                       OrEmpty(profile.facts))
       IN [userProfile |-> (profileEntry.id :> profileEntry) @@ up,
           ret |-> SideResult("saveUserProfile", TRUE, Absent, TRUE)]

\* getUserProfile: store.get('user'), or null (here the empty sequence).
getUserProfile(up) == IF "user" \in DOMAIN up THEN <<up["user"]>> ELSE <<>>

\* Profiles a caller passes: with the id 'user', with another id and
\* without id; with texts, with empty texts and without them; and null.
Profiles ==
  {UserProfile(id, goal, facts) :
     id \in {"user", "other", "none"}, goal \in {"lose fat", "gain", "", "none"},
     facts \in {"knee injury", "", "none"}} \cup {NullProfile}

\* arg keeps the argument of the most recent saveUserProfile that succeeded.
SaveUserProfile ==
  \E profile \in Profiles :
    LET r == saveUserProfile(userProfile, profile) IN
    /\ userProfile' = r.userProfile
    /\ ret' = r.ret
    /\ arg' = IF r.ret.success THEN profile ELSE arg
    /\ UNCHANGED <<exercises, logs, keyGen, order, openVars, clockVars, appVars,
                   bodyWeight, bwKeyGen, coachFeedback, cfKeyGen>>

GetUserProfile ==
  /\ ret' = SideResult("getUserProfile", TRUE, getUserProfile(userProfile), TRUE)
  /\ UNCHANGED <<exercises, logs, keyGen, order, openVars, extVars>>

NextProfile ==
  \/ SaveUserProfile
  \/ GetUserProfile

SpecProfile == InitSide /\ [][NextProfile]_vars

\* ------------------------------------------------------------------------
\* The conversion of a legacy exercise (schema/sessionSchema.ts).  A string
\* is a sequence of characters; a number is an integer or NaN.

NaN == -1000000

DigitChars == <<"0", "1", "2", "3", "4", "5", "6", "7", "8", "9">>

Digits == {DigitChars[i] : i \in 1..10}

DigitValue(c) == (CHOOSE i \in 1..10 : DigitChars[i] = c) - 1

\* A value of type number | string, with its typeof.
NumberValue(n) == [typeof |-> "number", number |-> n, string |-> <<>>]
StringValue(s) == [typeof |-> "string", number |-> 0, string |-> s]

\* typeof e.reps === "string"
IsString(reps) == reps.typeof = "string"

\* The number of digits a string begins with (\d+ takes them all).
RECURSIVE LeadingDigits(_)
LeadingDigits(s) ==
  IF s # <<>> /\ Head(s) \in Digits THEN 1 + LeadingDigits(Tail(s)) ELSE 0

\* The string without its first n characters.
Drop(s, n) == SubSeq(s, n + 1, Len(s))

\* The value of a string of digits, read in base 10.
RECURSIVE DecimalValue(_, _)
DecimalValue(s, acc) ==
  IF s = <<>> THEN acc ELSE DecimalValue(Tail(s), 10 * acc + DigitValue(Head(s)))

\* parseInt(s, 10): white space is skipped, a sign is read, then the
\* digits up to the first other character; NaN when there is no digit.
parseInt(s) ==
  LET t        == TrimStart(s)
      signed   == t # <<>> /\ Head(t) \in {"-", "+"}
      unsigned == IF signed THEN Tail(t) ELSE t
      n        == LeadingDigits(unsigned)
  IN IF n = 0 THEN NaN
     ELSE IF signed /\ Head(t) = "-"
     THEN 0 - DecimalValue(SubSeq(unsigned, 1, n), 0)
     ELSE DecimalValue(SubSeq(unsigned, 1, n), 0)

\* /^\d+\s*s$/i.test(reps)
MatchesSeconds(s) ==
  LET n    == LeadingDigits(s)
      rest == TrimStart(Drop(s, n))
  IN n > 0 /\ Len(rest) = 1 /\ rest[1] \in {"s", "S"}

\* /^\d+-\d+$/.test(reps): the pattern without the white space
MatchesRangeWithoutSpaces(s) ==
  LET n     == LeadingDigits(s)
      rest  == Drop(s, n)
      after == IF rest # <<>> THEN Tail(rest) ELSE <<>>
  IN /\ n > 0
     /\ rest # <<>> /\ Head(rest) = "-"
     /\ LeadingDigits(after) > 0
     /\ LeadingDigits(after) = Len(after)
\* /^\d+\s*-\s*\d+$/.test(reps)
MatchesRange(s) ==
  LET n     == LeadingDigits(s)
      rest  == TrimStart(Drop(s, n))
      after == IF rest # <<>> THEN TrimStart(Tail(rest)) ELSE <<>>
  IN /\ n > 0
     /\ rest # <<>> /\ Head(rest) = "-"
     /\ LeadingDigits(after) > 0
     /\ LeadingDigits(after) = Len(after)

\* The position of the first "-" of a string (0: none).
DashAt(s) ==
  IF \E i \in 1..Len(s) : s[i] = "-"
  THEN Min({i \in 1..Len(s) : s[i] = "-"})
  ELSE 0

\* const [min, max] = e.reps.split("-").map((x) => parseInt(x.trim(), 10)),
\* for a string with one "-"
RangeSwapped(s) ==
  [type |-> "range",
   min  |-> parseInt(trim(Drop(s, DashAt(s)))),
   max  |-> parseInt(trim(SubSeq(s, 1, DashAt(s) - 1)))]
RangeOf(s) ==
  [type |-> "range",
   min  |-> parseInt(trim(SubSeq(s, 1, DashAt(s) - 1))),
   max  |-> parseInt(trim(Drop(s, DashAt(s))))]

\* x || 10
OrTen(x) == IF x = NaN \/ x = 0 THEN 10 ELSE x

LegacyExercise(id, name, sets, reps, metricType) ==
  [id |-> id, name |-> name, sets |-> sets, reps |-> reps, metricType |-> metricType]

\* const target: Target = ...
LegacyTarget(e, metricType) ==
  IF metricType = "time"
  THEN [type |-> "time",
        seconds |-> IF IsString(e.reps) THEN parseInt(e.reps.string) ELSE e.reps.number]
  ELSE IF ~IsString(e.reps)
  THEN [type |-> "reps", reps |-> e.reps.number]
  ELSE IF MatchesSeconds(e.reps.string)
  THEN [type |-> "time", seconds |-> parseInt(e.reps.string)]
  ELSE IF MatchesRange(e.reps.string)
  THEN RangeOf(e.reps.string)
  ELSE [type |-> "reps", reps |-> OrTen(parseInt(e.reps.string))]

\* legacyExerciseToStep ("none": metricType or load is undefined)
legacyExerciseToStep(e) ==
  LET metricType == IF e.metricType = "none" THEN "weight" ELSE e.metricType
  IN [id |-> e.id, name |-> e.name, sets |-> e.sets,
      target |-> LegacyTarget(e, metricType),
      load   |-> IF metricType = "weight" THEN [type |-> "weight", unit |-> "kg"]
                 ELSE [type |-> "none"]]

\* z.number().int().positive()
PositiveInt(x) == x # NaN /\ x > 0

\* TargetSchema
TargetSchema(target) ==
  \/ target.type = "reps" /\ PositiveInt(target.reps)
  \/ /\ target.type = "range"
     /\ PositiveInt(target.min) /\ PositiveInt(target.max)
     /\ target.max >= target.min
  \/ target.type = "time" /\ PositiveInt(target.seconds)
  \/ target.type = "amrap"

\* The characters of the reps strings, and the strings of at most
\* MaxRepsLen characters.
RepsChars == {"0", "1", "2", " ", "s", "S", "-", "x"}

RepsStrings == {StringValue(s) : s \in Lists(RepsChars, MaxRepsLen)}

RepsNumbers == {NumberValue(n) : n \in {-3, 0, 8}}

LegacyExercises ==
  {LegacyExercise("bench", "Bench Press", 4, reps, metricType) :
     reps \in RepsStrings \cup RepsNumbers, metricType \in {"weight", "time", "none"}}

\* The session config holds a legacy exercise, which is converted when the
\* module is loaded.
InitLegacy ==
  /\ InitApp
  /\ arg \in LegacyExercises
  /\ calendar = <<>>
  /\ utcOffset = 0
  /\ clock = 0
  /\ InitStore(<<>>)

LegacyExerciseToStep ==
  /\ ret' = StatResult("legacyExerciseToStep", legacyExerciseToStep(arg))
  /\ UNCHANGED <<exercises, logs, keyGen, order, openVars, extVars>>

NextLegacy ==
  \/ LegacyExerciseToStep

SpecLegacy == InitLegacy /\ [][NextLegacy]_vars

\* ------------------------------------------------------------------------
\* Claims about opening and migrating (properties of SpecOpen)

IsLegacy(entry) == HasWeight(entry) /\ ~HasValue(entry)

\* The upgrade from a version below 2 has run to its end.
Migrated == oldVersion # Absent /\ NeedsMigration(oldVersion) /\ upgrade # "migrating"

\* C1: a second run of the v1 -> v2 migration changes nothing (on every
\* collection, migrated or not), and once the migration has run, every
\* record that had weight and no value has no weight and has value equal
\* to its original weight, every record that already had value is as it
\* was, and the collection is what one run over the original yields.
C1_MigrationIdempotent ==
  /\ MigrateStore(MigrateStore(logs)) = MigrateStore(logs)
  /\ Migrated =>
       /\ MigrateStore(logs) = logs
       /\ \A k \in DOMAIN orig :
            /\ logs[k] = MigrateStore(orig)[k]
            /\ IsLegacy(orig[k]) =>
                 ~HasWeight(logs[k]) /\ logs[k].value = orig[k].weight
            /\ HasValue(orig[k]) => logs[k] = orig[k]

\* C1 witness: the migration has run over a collection holding a record
\* with weight only and a record that already had value.
C1_Witness ==
  /\ Migrated
  /\ dbInstance # 0
  /\ \E k \in DOMAIN orig : IsLegacy(orig[k])
  /\ \E k \in DOMAIN orig : HasValue(orig[k])

\* C2: indexedDB.open is called at most once and all callers get the same
\* connection.
C2_SingleOpen ==
  /\ Len(openReqs) <= 1
  /\ \A c, d \in Callers : (handle[c] # 0 /\ handle[d] # 0) => handle[c] = handle[d]

\* C3: whenever dbInstance is set or a caller holds a connection (its
\* operation is about to run, or has run, its transaction), the upgrade
\* transaction is over, the migration cursor has visited every record, and
\* no record of workoutLogs has weight without value.
C3_HandleAfterMigration ==
  (dbInstance # 0 \/ \E c \in Callers : handle[c] # 0 \/ pc[c] \in {"ready", "done"}) =>
    /\ upgrade = "none"
    /\ cursor = <<>>
    /\ dbVersion = DB_VERSION
    /\ \A k \in DOMAIN logs : ~IsLegacy(logs[k])

\* C3 witness: a caller has written a workout log after an upgrade from
\* version 1 that had records to migrate.
C3_Witness ==
  /\ oldVersion = 1
  /\ \E k \in DOMAIN orig : IsLegacy(orig[k])
  /\ \E c \in Callers : pc[c] = "done" /\ op[c] = "saveWorkoutLog"

\* ------------------------------------------------------------------------
\* Claims about backup import and export (properties of Spec)

IsList(field) == field.kind = "list"

\* C4: exporting the store and importing the exported document, into the
\* same store or into an empty one, yields a store with exactly the
\* exported exercises and workout logs, every field as exported.
C4_RoundTrip ==
  \A now \in Clock :
    LET doc   == exportBackup(exercises, logs)
        same  == importBackup(exercises, logs, keyGen, order, doc, now)
        fresh == importBackup(EmptyStore, EmptyStore, 1, <<>>, doc, now)
    IN /\ Len(doc.exercises.items) = Cardinality(DOMAIN exercises)
       /\ Len(doc.workoutLogs.items) = Cardinality(DOMAIN logs)
       /\ same.ret.success /\ same.exercises = exercises /\ same.logs = logs
       /\ fresh.ret.success /\ fresh.exercises = exercises /\ fresh.logs = logs
       /\ fresh.ret.exercisesImported = Cardinality(DOMAIN exercises)
       /\ fresh.ret.workoutLogsImported = Cardinality(DOMAIN logs)

\* C4 witness: a just exported store with an exercise and two workout
\* logs, one of them a cardio log, has been imported again.
C4_Witness ==
  /\ ret.op = "importExported"
  /\ ret.success
  /\ DOMAIN exercises # {}
  /\ Cardinality(DOMAIN logs) >= 2
  /\ \E k \in DOMAIN logs : logs[k].type = "cardio"

\* C5: importBackup of a document whose exercises or workoutLogs field is
\* absent or is no list returns success = false and writes nothing.
C5_MalformedRejected ==
  [][\A doc \in Docs, now \in Clock :
       (ImportBackupOf(doc, now) /\ ~(IsList(doc.exercises) /\ IsList(doc.workoutLogs)))
         => (~ret'.success /\ exercises' = exercises /\ logs' = logs)]_vars

\* C6: for a document with both lists, importBackup attempts every entry
\* of both lists and returns success = true with the numbers of entries
\* whose write succeeded.
C6_EveryEntryAttempted ==
  [][\A doc \in Docs, now \in Clock :
       (ImportBackupOf(doc, now) /\ IsList(doc.exercises) /\ IsList(doc.workoutLogs))
         => LET r == importBackup(exercises, logs, keyGen, order, doc, now) IN
            /\ ret'.success
            /\ Len(r.exTrace) = Len(doc.exercises.items)
            /\ Len(r.logTrace) = Len(doc.workoutLogs.items)
            /\ ret'.exercisesImported =
                 Cardinality({i \in DOMAIN r.exTrace : r.exTrace[i]})
            /\ ret'.workoutLogsImported =
                 Cardinality({i \in DOMAIN r.logTrace : r.logTrace[i] # Absent})]_vars

\* The entries of a list that carry an id / a name.
Keyed(items) == {i \in DOMAIN items : items[i] # NullItem /\ items[i].id # "none"}
Named(items) == {i \in DOMAIN items : items[i] # NullItem /\ items[i].name # "none"}

\* C7 (as stated): importing a list of exercises, each with an id, of which
\* exactly one lacks name, returns success = true and
\* exercisesImported = count - 1.
C7_NamelessSkipped ==
  [][\A doc \in DocsByExercises, now \in Clock :
       LET items == doc.exercises.items IN
       (/\ ImportBackupOf(doc, now)
        /\ Keyed(items) = DOMAIN items
        /\ Cardinality(Named(items)) = Len(items) - 1)
         => (ret'.success /\ ret'.exercisesImported = Len(items) - 1)]_vars

\* C7 (amended): importing a list of exercises, none of them null, returns
\* success = true with exercisesImported = the number of entries that
\* carry an id (count - 1 when exactly one entry lacks its id); every
\* entry with an id is stored, with or without name, the last entry of an
\* id being the one kept, and no other exercise changes.
C7_IdlessSkipped ==
  \A doc \in DocsByExercises, now \in Clock :
    LET items == doc.exercises.items
        r     == importBackup(exercises, logs, keyGen, order, doc, now)
    IN (\A i \in DOMAIN items : items[i] # NullItem) =>
         /\ r.ret.success
         /\ r.ret.exercisesImported = Cardinality(Keyed(items))
         /\ \A i \in Keyed(items) :
              /\ items[i].id \in DOMAIN r.exercises
              /\ r.exercises[items[i].id] =
                   items[Max({j \in Keyed(items) : items[j].id = items[i].id})]
         /\ \A k \in DOMAIN r.exercises :
              (\A i \in Keyed(items) : items[i].id # k) =>
                (k \in DOMAIN exercises /\ r.exercises[k] = exercises[k])
         /\ DOMAIN exercises \subseteq DOMAIN r.exercises

\* C7 witness: an import has stored two exercises, one of them without
\* name.
C7_Witness ==
  /\ ret.op = "importBackup"
  /\ ret.success
  /\ ret.exercisesImported = 2
  /\ "e2" \in DOMAIN exercises
  /\ exercises["e2"].name = "none"

\* C8: every workout log importBackup writes is stored with the timestamp
\* the document gives it.
C8_TimestampPreserved ==
  [][\A doc \in DocsByLogs, now \in Clock :
       ImportBackupOf(doc, now) =>
         LET items == doc.workoutLogs.items
             r     == importBackup(exercises, logs, keyGen, order, doc, now)
         IN \A i \in DOMAIN items :
              (r.logTrace[i] # Absent /\ items[i].timestamp # Absent) =>
                logs'[r.logTrace[i]].timestamp = items[i].timestamp]_vars

\* C9: a stored workout log is never modified or removed, stored logs have
\* pairwise distinct ids, and an id saveWorkoutLog assigns is greater than
\* every id that was in the store.
C9_AppendOnly ==
  [][/\ \A k \in DOMAIN logs : k \in DOMAIN logs' /\ logs'[k] = logs[k]
     /\ \A j, k \in DOMAIN logs' : j # k => logs'[j].id # logs'[k].id
     /\ \A k \in DOMAIN logs' : logs'[k].id = k
     /\ ret'.op = "saveWorkoutLog" =>
          /\ ret'.id \in DOMAIN logs' \ DOMAIN logs
          /\ \A k \in DOMAIN logs : ret'.id > k]_vars

\* C9 witness: saveWorkoutLog has assigned id 3 in a store whose only other
\* log was imported under id 2.
C9_Witness ==
  /\ ret.op = "saveWorkoutLog"
  /\ ret.id = 3
  /\ DOMAIN logs = {2, 3}
  /\ logs[2].exerciseId = "e1"

\* ------------------------------------------------------------------------
\* Claims about the queries (properties of SpecQuery)

Reverse(q) == [i \in 1..Len(q) |-> q[Len(q) + 1 - i]]

FirstN(q, n) == SubSeq(q, 1, IF n < Len(q) THEN n ELSE Len(q))

\* The logs of an exercise, most recently inserted first.
LatestInserted(exerciseId) ==
  LET ids == SelectSeq(Reverse(order), LAMBDA k : logs[k].exerciseId = exerciseId)
  IN [i \in 1..Len(ids) |-> logs[ids[i]]]

InsertedInIdOrder == \A i, j \in DOMAIN order : i < j => order[i] < order[j]

SessionDays == {DayOf(calendar, logs[k].timestamp) : k \in {j \in DOMAIN logs : logs[j].completed}}

\* The number of consecutive days today, today-1, ... that all contain a
\* completed session.
ConsecutiveDays == Min({k \in 0..NumDays : (Today(calendar) - k) \notin SessionDays})

\* No day of the calendar is a day on which the time zone changes its offset.
FixedOffset == \A d \in 1..Len(calendar) : calendar[d] = oneDay

\* C11: in a time zone with a fixed offset, getWorkoutStatus returns streak
\* equal to the number k of consecutive calendar days today, today-1, ...,
\* today-(k-1) that all contain a completed session; sessions on exactly
\* {today, today-1, today-2} give streak = 3.
C11_StreakCountsConsecutiveDays ==
  (ret.op = "getWorkoutStatus" /\ FixedOffset) => ret.value.streak = ConsecutiveDays

\* C12: when the most recent completed session is on the calendar day
\* before today and none is on today, getWorkoutStatus returns
\* hasWorkoutToday = false, hasWorkoutYesterday = true,
\* daysSinceLastWorkout = 1 and streak = 0, whatever older sessions exist.
C12_YesterdayOnly ==
  (/\ ret.op = "getWorkoutStatus"
   /\ SessionDays # {}
   /\ Max(SessionDays) = Today(calendar) - 1)
  => ret.value = [hasWorkoutToday |-> FALSE, hasWorkoutYesterday |-> TRUE,
                  daysSinceLastWorkout |-> 1, streak |-> 0]

\* The orders in which a list can be passed.
Orderings(list) ==
  {[i \in 1..Len(list) |-> list[p[i]]] : p \in Permutations(1..Len(list))}

CompletedKeys == {k \in DOMAIN logs : logs[k].completed}

\* The completed logs of one (calendar day, sessionId) pair.
GroupOf(key) == {k \in CompletedKeys : DateKey(calendar, logs[k]) = key}

SessionGroups == {DateKey(calendar, logs[k]) : k \in CompletedKeys}

IsCardioGroup(key) == \A k \in GroupOf(key) : logs[k].type = "cardio"

IsGymGroup(key) == \A k \in GroupOf(key) : logs[k].type # "cardio"

\* The records of a result that stand for one pair.
RecordsOf(result, key) ==
  {i \in 1..Len(result) :
     <<DayOf(calendar, result[i].timestamp), result[i].sessionId>> = key}

\* C14: getCompletedSessions ignores logs with completed = false and
\* returns exactly one record per distinct (local calendar day, sessionId)
\* pair among the completed logs; for non-cardio groups the record's
\* timestamp is the minimum timestamp of the group, in whatever order the
\* logs are passed, and the result is sorted by timestamp, descending.
C14_OneRecordPerSessionDay ==
  ret.op = "getCompletedSessions" =>
  \A list \in Orderings(allLogs) :
    LET result == getCompletedSessions(list, calendar) IN
    /\ list = allLogs => result = ret.value
    /\ Len(result) = Cardinality(SessionGroups)
    /\ \A key \in SessionGroups :
         /\ Cardinality(RecordsOf(result, key)) = 1
         /\ IsGymGroup(key) =>
              \A i \in RecordsOf(result, key) :
                result[i].timestamp = Min({logs[k].timestamp : k \in GroupOf(key)})
    /\ \A i \in 1..(Len(result) - 1) : result[i].timestamp >= result[i + 1].timestamp

\* C14 witness: the sessions were asked for on logs that hold a log that is
\* not completed and a gym group of two logs with different timestamps.
C14_Witness ==
  /\ ret.op = "getCompletedSessions"
  /\ Len(ret.value) = 1
  /\ \E k \in DOMAIN logs : ~logs[k].completed
  /\ \E key \in SessionGroups :
       /\ IsGymGroup(key)
       /\ Cardinality({logs[k].timestamp : k \in GroupOf(key)}) = 2

\* C15: a (calendar day, sessionId) group made of cardio logs is
\* represented by the latest timestamp of the group.
C15_CardioLatest ==
  ret.op = "getCompletedSessions" =>
    \A key \in SessionGroups :
      IsCardioGroup(key) =>
        \A i \in RecordsOf(ret.value, key) :
          ret.value[i].timestamp = Max({logs[k].timestamp : k \in GroupOf(key)})

\* The (sessionId, local calendar day) pairs of the logs that are at most
\* the given number of days old.
RecentPairs(days) ==
  {<<logs[k].sessionId, DayOf(calendar, logs[k].timestamp)>> :
     k \in {j \in DOMAIN logs : logs[j].timestamp >= clock - days * oneDay}}

\* C16: getWorkoutCountInDays(logs, days) is the number of distinct
\* (sessionId, local calendar day) pairs among the logs whose timestamp is
\* at least now - days * one day.
C16_CountsSessionDays ==
  ret.op = "getWorkoutCountInDays" => ret.value = Cardinality(RecentPairs(arg))

\* C16 witness: three logs were counted as two workouts: two logs of one
\* session on one day, and a log of the same session on the day before,
\* less than 24 hours earlier.
C16_Witness ==
  /\ ret.op = "getWorkoutCountInDays"
  /\ ret.value = 2
  /\ Cardinality(DOMAIN logs) = 3
  /\ \A k \in DOMAIN logs : logs[k].sessionId = "A" /\ logs[k].timestamp >= clock - arg * oneDay
  /\ \E j, k \in DOMAIN logs :
       /\ DayOf(calendar, logs[j].timestamp) # DayOf(calendar, logs[k].timestamp)
       /\ logs[k].timestamp - logs[j].timestamp \in 1..(oneDay - 1)

\* The completed logs of an exercise.
CompletedOf(e) == {k \in DOMAIN logs : logs[k].exerciseId = e /\ logs[k].completed}

\* Log j is newer than log k: its timestamp is greater or, when the
\* timestamps are equal, its id is lower.
Newer(j, k) ==
  \/ logs[j].timestamp > logs[k].timestamp
  \/ logs[j].timestamp = logs[k].timestamp /\ j < k

NewestOf(keys) == CHOOSE k \in keys : \A j \in keys \ {k} : Newer(k, j)

\* At least two completed logs exist for the exercise and the value of the
\* newest is strictly greater than the value of the second-newest.
Progressed(e) ==
  /\ Cardinality(CompletedOf(e)) >= 2
  /\ LET newest == NewestOf(CompletedOf(e))
         second == NewestOf(CompletedOf(e) \ {newest})
     IN logs[newest].value > logs[second].value

\* The current and previous values of an exercise that progressed.
Progression(e) ==
  LET newest == NewestOf(CompletedOf(e))
      second == NewestOf(CompletedOf(e) \ {newest})
  IN [current |-> logs[newest].value, previous |-> logs[second].value]

BodyWeightsValid ==
  \A k \in DOMAIN bodyWeight : bodyWeight[k].weight > 0 /\ bodyWeight[k].weight % 10 = 0

\* A call of saveBodyWeight with a weight that is not positive or has
\* more than one decimal digit fails, changes nothing and opens no
\* transaction; any other call succeeds and appends one entry with the
\* weight.
SaveBodyWeightStep ==
  ret'.op = "saveBodyWeight" =>
    IF arg' <= 0 \/ arg' % 10 # 0
    THEN ~ret'.success /\ ~ret'.transaction /\ bodyWeight' = bodyWeight
    ELSE /\ ret'.success
         /\ \E k \in DOMAIN bodyWeight' \ DOMAIN bodyWeight :
              /\ DOMAIN bodyWeight' = DOMAIN bodyWeight \cup {k}
              /\ bodyWeight'[k].weight = arg'
         /\ \A j \in DOMAIN bodyWeight : bodyWeight'[j] = bodyWeight[j]

\* C17: saveBodyWeight(w) fails, leaving the bodyWeight collection
\* unchanged and opening no write transaction, whenever w <= 0 or w*10 is
\* not an integer; for every other w it succeeds and appends exactly one
\* entry with weight w; every stored entry is positive with at most one
\* decimal digit.
C17_BodyWeightValidated == []BodyWeightsValid /\ [][SaveBodyWeightStep]_vars

\* C17 witness: 75.55 was rejected after 75.5 was stored.
C17_Witness ==
  /\ ret.op = "saveBodyWeight"
  /\ ~ret.success
  /\ arg = 7555
  /\ \E k \in DOMAIN bodyWeight : bodyWeight[k].weight = 7550

\* A text that is empty or made of white space only.
Blank(s) == \A i \in 1..Len(s) : s[i] \in Whitespace

\* Every stored feedback is non-empty and has no white space at its ends.
FeedbackTrimmed ==
  \A k \in DOMAIN coachFeedback :
    LET f == coachFeedback[k].feedback
    IN f # <<>> /\ f[1] \notin Whitespace /\ f[Len(f)] \notin Whitespace

\* A call of saveCoachFeedback with a blank text fails and changes
\* nothing; a call of deleteCoachFeedback(id) removes the entry with that
\* id and no other.
FeedbackStep ==
  /\ (ret'.op = "saveCoachFeedback" /\ Blank(arg')) =>
       ~ret'.success /\ coachFeedback' = coachFeedback
  /\ ret'.op = "deleteCoachFeedback" =>
       /\ DOMAIN coachFeedback' = DOMAIN coachFeedback \ {arg'}
       /\ \A k \in DOMAIN coachFeedback' : coachFeedback'[k] = coachFeedback[k]

\* C18: after any sequence of saveCoachFeedback and deleteCoachFeedback
\* calls every stored feedback is non-empty and equal to its trimmed form;
\* saving an empty or whitespace-only text fails and leaves the collection
\* unchanged; deleteCoachFeedback(id) removes only the entry with that id.
C18_FeedbackTrimmedAndDeletable == []FeedbackTrimmed /\ [][FeedbackStep]_vars

\* C18 witness: of two stored entries the first was deleted and the second
\* is still there.
C18_Witness ==
  /\ ret.op = "deleteCoachFeedback"
  /\ arg = 1
  /\ DOMAIN coachFeedback = {2}
  /\ cfKeyGen = 3

\* The collection holds at most one record, and its id is "user".
ProfileSingleton ==
  /\ DOMAIN userProfile \subseteq {"user"}
  /\ \A k \in DOMAIN userProfile : userProfile[k].id = "user"

\* C19 (as stated): the profile collection holds at most one record with
\* id "user", and getUserProfile returns the goal and facts of the most
\* recent successful saveUserProfile (null if none was made).
C19_ReturnsArgumentOfLastSave ==
  /\ ProfileSingleton
  /\ ret.op = "getUserProfile" =>
       IF DOMAIN arg = {}
       THEN ret.value = <<>>
       ELSE /\ Len(ret.value) = 1
            /\ ret.value[1].goal = arg.goal
            /\ ret.value[1].facts = arg.facts

\* C19 (amended): the same, a goal or facts that the call did not carry
\* being returned as the empty text.
C19_ReturnsLastSave ==
  /\ ProfileSingleton
  /\ ret.op = "getUserProfile" =>
       IF DOMAIN arg = {}
       THEN ret.value = <<>>
       ELSE /\ Len(ret.value) = 1
            /\ ret.value[1].id = "user"
            /\ ret.value[1].goal = (IF arg.goal = "none" THEN "" ELSE arg.goal)
            /\ ret.value[1].facts = (IF arg.facts = "none" THEN "" ELSE arg.facts)

\* C19 witness: the profile was read after a profile with another id was
\* saved over an earlier one.
C19_Witness ==
  /\ ret.op = "getUserProfile"
  /\ DOMAIN arg # {}
  /\ arg.id = "other"
  /\ arg.goal = "gain"
  /\ ret.value = <<UserProfile("user", "gain", "")>>

\* ------------------------------------------------------------------------
\* Claims about the legacy conversion (properties of SpecLegacy)

\* A non-empty string of digits that stands for a positive number.
PositiveNumeral(s) ==
  /\ s # <<>>
  /\ \A i \in 1..Len(s) : s[i] \in Digits
  /\ DecimalValue(s, 0) > 0

\* reps is a positive integer, or a string that is a positive integer, a
\* positive integer followed by "s", or "N-M" with positive N <= M.
PlainReps(reps) ==
  IF IsString(reps)
  THEN LET s == reps.string IN
       \/ PositiveNumeral(s)
       \/ s # <<>> /\ s[Len(s)] = "s" /\ PositiveNumeral(SubSeq(s, 1, Len(s) - 1))
       \/ \E i \in 1..Len(s) :
            /\ s[i] = "-"
            /\ PositiveNumeral(SubSeq(s, 1, i - 1))
            /\ PositiveNumeral(SubSeq(s, i + 1, Len(s)))
            /\ DecimalValue(SubSeq(s, 1, i - 1), 0) <= DecimalValue(SubSeq(s, i + 1, Len(s)), 0)
  ELSE reps.number > 0

\* C20 (as stated): for every well-typed legacy exercise the conversion
\* returns a step whose target satisfies the Target schema.
C20_TargetSatisfiesSchema ==
  ret.op = "legacyExerciseToStep" => TargetSchema(ret.value.target)

\* C20 (amended): the conversion returns a step whose target is of type
\* reps, range or time, and the target satisfies the Target schema whenever
\* reps is a positive integer or a string of the form "N", "Ns" or "N-M"
\* with positive integers N <= M.
C20_PlainRepsSatisfySchema ==
  ret.op = "legacyExerciseToStep" =>
    /\ ret.value.target.type \in {"reps", "range", "time"}
    /\ PlainReps(arg.reps) => TargetSchema(ret.value.target)

\* C20 witness: "1-2" was converted to the range from 1 to 2.
C20_Witness ==
  /\ ret.op = "legacyExerciseToStep"
  /\ arg.reps = StringValue(<<"1", "-", "2">>)
  /\ ret.value.target = [type |-> "range", min |-> 1, max |-> 2]

\* ------------------------------------------------------------------------
\* lib/backupUtils.ts: the backup reminder.  Times are in hours, as the
\* clock is; a string is a sequence of characters.

LAST_BACKUP_KEY == "gym-workout-last-backup"

\* const BACKUP_REMINDER_DAYS = 7
BACKUP_REMINDER_DAYS == 7

\* null
NullValue == [typeof |-> "null", number |-> 0, string |-> <<>>]

\* Number.prototype.toString() of a non-negative integer
RECURSIVE toString(_)
toString(n) ==
  IF n < 10 THEN <<DigitChars[n + 1]>>
  ELSE Append(toString(n \div 10), DigitChars[(n % 10) + 1])

\* getLastBackupDate(): null when localStorage throws, when there is no
\* item, when the item is the empty string and when it does not parse.
getLastBackupDate(storage, throws) ==
  IF throws \/ LAST_BACKUP_KEY \notin DOMAIN storage THEN NullValue
  ELSE LET stored == storage[LAST_BACKUP_KEY] IN
       IF stored = <<>> THEN NullValue
       ELSE LET timestamp == parseInt(stored) IN
            IF timestamp = NaN THEN NullValue ELSE NumberValue(timestamp)

\* lastBackup < sevenDaysAgo, read as "seven days or more"
SevenDaysOrMore(lastBackup, now) == lastBackup <= now - BACKUP_REMINDER_DAYS * oneDay

\* const sevenDaysAgo = Date.now() - (BACKUP_REMINDER_DAYS * 24 * 60 * 60 * 1000);
\* return lastBackup < sevenDaysAgo
BeforeSevenDaysAgo(lastBackup, now) == lastBackup < now - BACKUP_REMINDER_DAYS * oneDay

shouldShowBackupReminder(storage, throws, now) ==
  LET lastBackup == getLastBackupDate(storage, throws) IN
  IF lastBackup = NullValue THEN TRUE
  ELSE BeforeSevenDaysAgo(lastBackup.number, now)

\* setLastBackupDate(): localStorage.setItem(LAST_BACKUP_KEY, Date.now().toString()),
\* an exception of setItem being logged and nothing else.
setLastBackupDate(storage, throws, now) ==
  IF throws THEN storage
  ELSE [k \in DOMAIN storage \cup {LAST_BACKUP_KEY} |->
          IF k = LAST_BACKUP_KEY THEN toString(now) ELSE storage[k]]

\* How many periods of seven days the clock runs through, and how many
\* hours past a whole number of periods it may stand.
MaxPeriods == 2
MaxHoursPast == 2

\* What the key may hold when the page is loaded: nothing, a timestamp
\* written earlier, or something a timestamp cannot be read from.
StoredBackups ==
  {EmptyStore} \cup
  {[k \in {LAST_BACKUP_KEY} |-> s] : s \in {<<>>, <<"x">>, toString(0), toString(1)}}

InitReminder ==
  /\ arg = <<>>
  /\ calendar = <<>>
  /\ utcOffset = 0
  /\ clock = 1
  /\ InitStore(<<>>)
  /\ localStorage \in StoredBackups
  /\ notification = [showNotification |-> FALSE, isDownloading |-> FALSE, error |-> "null"]
  /\ sessionView = [shown |-> FALSE, sessionEntries |-> EmptyStore, isSaving |-> FALSE,
                    saveError |-> "null"]
  /\ caches = EmptyStore
  /\ worker = "none"
  /\ online = TRUE
  /\ loadedOnline = FALSE

\* Time passes: an hour, or seven days.
Tick ==
  \E d \in {1, BACKUP_REMINDER_DAYS * oneDay} :
    /\ (clock + d) % (BACKUP_REMINDER_DAYS * oneDay) <= MaxHoursPast
    /\ clock + d <= MaxPeriods * BACKUP_REMINDER_DAYS * oneDay + MaxHoursPast
    /\ clock' = clock + d
    /\ UNCHANGED <<storeVars, openVars, calendar, utcOffset, sideVars, arg, appVars>>

SetLastBackupDate ==
  \E throws \in BOOLEAN :
    /\ localStorage' = setLastBackupDate(localStorage, throws, clock)
    /\ ret' = StatResult("setLastBackupDate", <<>>)
    /\ arg' = [throws |-> throws]
    /\ UNCHANGED <<exercises, logs, keyGen, order, openVars, clockVars, sideVars,
                   notification, sessionView, caches, worker, online, loadedOnline>>

ShouldShowBackupReminder ==
  \E throws \in BOOLEAN :
    /\ ret' = StatResult("shouldShowBackupReminder",
                         shouldShowBackupReminder(localStorage, throws, clock))
    /\ arg' = [throws |-> throws]
    /\ UNCHANGED <<exercises, logs, keyGen, order, openVars, clockVars, sideVars, appVars>>

NextReminder ==
  \/ Tick
  \/ SetLastBackupDate
  \/ ShouldShowBackupReminder

SpecReminder == InitReminder /\ [][NextReminder]_vars

\* ------------------------------------------------------------------------
\* C21

\* The key holds a timestamp: an item that is a decimal numeral.
HasTimestamp(storage) ==
  /\ LAST_BACKUP_KEY \in DOMAIN storage
  /\ storage[LAST_BACKUP_KEY] # <<>>
  /\ \A i \in 1..Len(storage[LAST_BACKUP_KEY]) : storage[LAST_BACKUP_KEY][i] \in Digits

\* No timestamp is recorded, or more than seven days have elapsed since.
ReminderIsDue(storage, now) ==
  \/ ~HasTimestamp(storage)
  \/ now - DecimalValue(storage[LAST_BACKUP_KEY], 0) > 7 * 24

ReminderCall ==
  /\ ret'.op = "shouldShowBackupReminder"
  /\ UNCHANGED <<clock, localStorage>>

SetLastBackupDateCall ==
  /\ ret'.op = "setLastBackupDate"
  /\ clock' = clock

\* C21 (as stated): shouldShowBackupReminder returns true exactly when no
\* timestamp is recorded, or the recorded value is unreadable, or more than
\* seven days have elapsed since the recorded timestamp; right after every
\* setLastBackupDate the reminder is not due.
C21_FalseAfterSetLastBackupDate ==
  [][/\ ReminderCall =>
          ret'.value = (arg'.throws \/ ReminderIsDue(localStorage, clock))
     /\ SetLastBackupDateCall => ~ReminderIsDue(localStorage', clock)]_vars

\* C21 (amended): shouldShowBackupReminder returns true exactly when
\* localStorage cannot be read, or holds no readable timestamp, or more than
\* seven days have elapsed since the recorded timestamp.  A
\* setLastBackupDate whose write succeeds records the present time, after
\* which the reminder is not due until more than seven days have passed; a
\* setLastBackupDate whose write throws records nothing.
C21_FalseAfterRecordedBackup ==
  [][/\ ReminderCall =>
          ret'.value = (arg'.throws \/ ReminderIsDue(localStorage, clock))
     /\ (SetLastBackupDateCall /\ ~arg'.throws) =>
          /\ HasTimestamp(localStorage')
          /\ DecimalValue(localStorage'[LAST_BACKUP_KEY], 0) = clock
          /\ ~ReminderIsDue(localStorage', clock)
     /\ (SetLastBackupDateCall /\ arg'.throws) => localStorage' = localStorage]_vars

\* C21 witness: exactly seven days after a recorded backup the reminder is
\* asked for and is not shown.
C21_Witness ==
  /\ ret.op = "shouldShowBackupReminder"
  /\ ret.value = FALSE
  /\ HasTimestamp(localStorage)
  /\ DecimalValue(localStorage[LAST_BACKUP_KEY], 0) > 1
  /\ clock - DecimalValue(localStorage[LAST_BACKUP_KEY], 0) = 7 * 24

\* ------------------------------------------------------------------------
\* schema/sessionSchema.ts: EffortSchema.  Numbers are in tenths, so that
\* an rpe of 7.5 is 75.

\* undefined
UndefinedValue == [typeof |-> "undefined", number |-> 0, string |-> <<>>]

\* z.number().int().min(0).max(10).optional()
RirSchema(rir) ==
  \/ rir = UndefinedValue
  \/ /\ rir.typeof = "number"
     /\ rir.number % 10 = 0
     /\ rir.number >= 0 /\ rir.number <= 100

\* z.number().min(1).max(10).optional()
RpeSchema(rpe) ==
  \/ rpe = UndefinedValue
  \/ /\ rpe.typeof = "number"
     /\ rpe.number >= 10 /\ rpe.number <= 100

\* v != null
NotNullish(v) == v # NullValue /\ v # UndefinedValue

\* z.object({rir, rpe}).refine((v) => !(v.rir != null && v.rpe != null))
EffortSchema(v) ==
  /\ RirSchema(v.rir)
  /\ RpeSchema(v.rpe)
  /\ ~(NotNullish(v.rir) /\ NotNullish(v.rpe))

\* What a field of an effort object may hold: nothing, null, and numbers
\* inside and outside the bounds (0, 1.5, 2, 10, 11 and -1).
EffortValues ==
  {UndefinedValue, NullValue} \cup {NumberValue(n) : n \in {0, 15, 20, 100, 110, -10}}

Efforts == [rir : EffortValues, rpe : EffortValues]

\* A step of a session template carries an effort object, which is parsed.
InitEffort ==
  /\ InitApp
  /\ arg \in Efforts
  /\ calendar = <<>>
  /\ utcOffset = 0
  /\ clock = 0
  /\ InitStore(<<>>)

EffortSafeParse ==
  /\ ret' = StatResult("EffortSchema", EffortSchema(arg))
  /\ UNCHANGED <<exercises, logs, keyGen, order, openVars, extVars>>

NextEffort ==
  \/ EffortSafeParse

SpecEffort == InitEffort /\ [][NextEffort]_vars

\* ------------------------------------------------------------------------
\* C22

\* The field is present with a number the field's own bounds admit
\* (rir: an integer of 0..10, rpe: 1..10).
RirGiven(v) == v.rir.typeof = "number" /\ v.rir.number \in {0, 20, 100}
RpeGiven(v) == v.rpe.typeof = "number" /\ v.rpe.number \in {15, 20, 100}

\* C22 (as stated): an effort object whose fields are absent or within
\* their bounds is accepted if and only if exactly one of rir and rpe is
\* present; an effort with both, and an effort with neither, are rejected.
C22_ExactlyOneOfRirAndRpe ==
  (/\ ret.op = "EffortSchema"
   /\ RirGiven(arg) \/ arg.rir = UndefinedValue
   /\ RpeGiven(arg) \/ arg.rpe = UndefinedValue)
  => (ret.value <=> (RirGiven(arg) /\ ~RpeGiven(arg)) \/ (RpeGiven(arg) /\ ~RirGiven(arg)))

\* ------------------------------------------------------------------------
\* public/sw.js: the service worker, and the page that registers it.

CACHE_NAME == "gym-workout-v2"
RUNTIME_CACHE == "gym-workout-runtime"
PRECACHE_ASSETS == {"/gym-workout/", "/gym-workout/index.html", "/gym-workout/manifest.json"}

\* A cache of the previous deployment (CACHE_VERSION 'v1').
OldCache == "gym-workout-v1"

\* The script the document loads, and the routes of the app.
AppScript == "/gym-workout/assets/index.js"
AppRoutes == {"/gym-workout/", "/gym-workout/session/A"}

Request(url, method, mode, sameOrigin) ==
  [url |-> url, method |-> method, mode |-> mode, sameOrigin |-> sameOrigin]

Response(ok, fromCache) == [ok |-> ok, fromCache |-> fromCache]

NetworkError == Response(FALSE, FALSE)

\* fetch(request): the server answers 200 while the network can be reached.
FromNetwork(on) == IF on THEN Response(TRUE, FALSE) ELSE NetworkError

\* caches.match(request): the response of any cache that holds the URL,
\* undefined (which respondWith turns into a network error) otherwise.
CachesMatch(c, request) ==
  IF \E name \in DOMAIN c : request.url \in c[name]
  THEN Response(TRUE, TRUE) ELSE NetworkError

\* cache.put(request, response) on the cache of that name
CachePut(c, name, url) ==
  [n \in DOMAIN c \cup {name} |->
     IF n = name THEN (IF n \in DOMAIN c THEN c[n] ELSE {}) \cup {url} ELSE c[n]]

\* The fetch handler: what the page receives and what the caches hold
\* afterwards.  Requests the handler returns from without respondWith go
\* to the network.
FetchHandler(c, on, request) ==
  IF request.method # "GET" \/ ~request.sameOrigin
  THEN [response |-> FromNetwork(on), caches |-> c]
  ELSE IF request.mode = "navigate"
  THEN [response |-> IF on THEN FromNetwork(on) ELSE CachesMatch(c, request),
        caches |-> c]
  ELSE IF on
  THEN [response |-> FromNetwork(on), caches |-> CachePut(c, RUNTIME_CACHE, request.url)]
  ELSE [response |-> CachesMatch(c, request), caches |-> c]

\* A request of a page: through the fetch handler when the worker
\* controls the page, to the network otherwise.
Fetched(c, w, on, request) ==
  IF w = "activated" THEN FetchHandler(c, on, request)
  ELSE [response |-> FromNetwork(on), caches |-> c]

FetchResult(response, on) ==
  StatResult("fetch", [ok |-> response.ok, fromCache |-> response.fromCache,
                       offline |-> ~on])

\* The install handler: cache.addAll(PRECACHE_ASSETS), which needs the
\* network, then skipWaiting.  The page registers the worker when it runs.
Install ==
  /\ worker = "none"
  /\ loadedOnline
  /\ online
  /\ caches' = [n \in DOMAIN caches \cup {CACHE_NAME} |-> 
                  IF n = CACHE_NAME THEN PRECACHE_ASSETS ELSE caches[n]]
  /\ worker' = "installed"
  /\ UNCHANGED <<storeVars, openVars, clockVars, sideVars, arg, localStorage,
                 notification, sessionView, online, loadedOnline>>

\* The activate handler: the caches of other versions are deleted and the
\* open pages are claimed.
Activate ==
  /\ worker = "installed"
  /\ caches' = [n \in {name \in DOMAIN caches : name \in {CACHE_NAME, RUNTIME_CACHE}}
                  |-> caches[n]]
  /\ worker' = "activated"
  /\ UNCHANGED <<storeVars, openVars, clockVars, sideVars, arg, localStorage,
                 notification, sessionView, online, loadedOnline>>

\* The app is started, restarted or reloaded on one of its routes: the
\* document is requested and, once it arrived, the script it names.
LoadApp ==
  \E url \in AppRoutes :
    LET document == Fetched(caches, worker, online, Request(url, "GET", "navigate", TRUE))
        script   == Fetched(document.caches, worker, online,
                            Request(AppScript, "GET", "no-cors", TRUE))
        loaded   == document.response.ok /\ script.response.ok
    IN /\ caches' = IF document.response.ok THEN script.caches ELSE caches
       /\ loadedOnline' = (loadedOnline \/ (online /\ loaded))
       /\ arg' = Request(url, "GET", "navigate", TRUE)
       /\ ret' = FetchResult(IF document.response.ok THEN script.response
                             ELSE document.response, online)
       /\ UNCHANGED <<exercises, logs, keyGen, order, openVars, clockVars, sideVars,
                      localStorage, notification, sessionView, worker, online>>

\* What the running app may request: its manifest and script, a POST, and
\* a resource of another origin.
AppRequests ==
  {Request("/gym-workout/manifest.json", "GET", "cors", TRUE),
   Request(AppScript, "GET", "no-cors", TRUE),
   Request("/gym-workout/api", "POST", "cors", TRUE),
   Request("https://fonts.example/font.woff2", "GET", "cors", FALSE)}

Fetch ==
  \E request \in AppRequests :
    LET r == Fetched(caches, worker, online, request) IN
    /\ loadedOnline
    /\ caches' = r.caches
    /\ arg' = request
    /\ ret' = FetchResult(r.response, online)
    /\ UNCHANGED <<exercises, logs, keyGen, order, openVars, clockVars, sideVars,
                   localStorage, notification, sessionView, worker, online,
                   loadedOnline>>

\* The network goes away or comes back.
ToggleNetwork ==
  /\ online' = ~online
  /\ UNCHANGED <<storeVars, openVars, clockVars, sideVars, arg, localStorage,
                 notification, sessionView, caches, worker, loadedOnline>>

\* A browser that never ran the app, or one that holds the cache of the
\* previous deployment.
InitWorker ==
  /\ arg = <<>>
  /\ calendar = <<>>
  /\ utcOffset = 0
  /\ clock = 0
  /\ InitStore(<<>>)
  /\ localStorage = EmptyStore
  /\ notification = [showNotification |-> FALSE, isDownloading |-> FALSE, error |-> "null"]
  /\ sessionView = [shown |-> FALSE, sessionEntries |-> EmptyStore, isSaving |-> FALSE,
                    saveError |-> "null"]
  /\ caches \in {EmptyStore, [n \in {OldCache} |-> {"/gym-workout/"}]}
  /\ worker = "none"
  /\ online \in BOOLEAN
  /\ loadedOnline = FALSE

NextWorker ==
  \/ Install
  \/ Activate
  \/ LoadApp
  \/ Fetch
  \/ ToggleNetwork

SpecWorker == InitWorker /\ [][NextWorker]_vars

\* ------------------------------------------------------------------------
\* C23

\* C23 (as stated): once the service worker is installed and controls the
\* page and the app has been loaded once while online (here: so that the
\* worker cached the script of the app), every same-origin GET request
\* issued while the network is unavailable is answered with a cached
\* response.
C23_OfflineAnsweredFromCache ==
  (/\ ret.op = "fetch"
   /\ worker = "activated"
   /\ loadedOnline
   /\ RUNTIME_CACHE \in DOMAIN caches
   /\ AppScript \in caches[RUNTIME_CACHE]
   /\ ret.value.offline
   /\ arg.method = "GET"
   /\ arg.sameOrigin)
  => (ret.value.ok /\ ret.value.fromCache)

\* ------------------------------------------------------------------------
\* C24

AllIn(s, chars) == \A i \in 1..Len(s) : s[i] \in chars

\* s is digits, white space, a hyphen, white space and digits, the runs of
\* white space being no longer than maxSpace: with 0, /^\d+-\d+$/.
RangeParts(s, maxSpace) ==
  {p \in (1..Len(s)) \X (1..Len(s)) \X (1..Len(s)) :
     /\ p[1] <= p[2] /\ p[2] <= p[3] /\ p[3] < Len(s)
     /\ AllIn(SubSeq(s, 1, p[1]), Digits)
     /\ AllIn(SubSeq(s, p[1] + 1, p[2] - 1), Whitespace)
     /\ p[2] - 1 - p[1] <= maxSpace
     /\ s[p[2]] = "-" /\ p[2] > p[1]
     /\ AllIn(SubSeq(s, p[2] + 1, p[3]), Whitespace)
     /\ p[3] - p[2] <= maxSpace
     /\ AllIn(SubSeq(s, p[3] + 1, Len(s)), Digits)}

RangeTarget(s, p) ==
  [type |-> "range",
   min  |-> DecimalValue(SubSeq(s, 1, p[1]), 0),
   max  |-> DecimalValue(SubSeq(s, p[3] + 1, Len(s)), 0)]

\* s is digits, white space and one s or S: /^\d+\s*s$/i
SecondsParts(s) ==
  {n \in 1..(Len(s) - 1) :
     /\ AllIn(SubSeq(s, 1, n), Digits)
     /\ AllIn(SubSeq(s, n + 1, Len(s) - 1), Whitespace)
     /\ s[Len(s)] \in {"s", "S"}}

\* The conversion of a string of repetitions, the range pattern allowing
\* runs of white space of at most maxSpace around the hyphen.
ConvertsStrings(maxSpace) ==
  (/\ ret.op = "legacyExerciseToStep"
   /\ arg.metricType # "time"
   /\ IsString(arg.reps))
  => LET s      == arg.reps.string
         target == ret.value.target
     IN /\ target.type = "range" <=> RangeParts(s, maxSpace) # {}
        /\ \A p \in RangeParts(s, maxSpace) : target = RangeTarget(s, p)
        /\ target.type = "time" <=> SecondsParts(s) # {}
        /\ \A n \in SecondsParts(s) :
             target = [type |-> "time", seconds |-> DecimalValue(SubSeq(s, 1, n), 0)]
        /\ (RangeParts(s, maxSpace) = {} /\ SecondsParts(s) = {}) =>
             target = [type |-> "reps",
                       reps |-> IF parseInt(s) \in {NaN, 0} THEN 10 ELSE parseInt(s)]

LoadIsWeightForWeight ==
  ret.op = "legacyExerciseToStep" =>
    (ret.value.load = [type |-> "weight", unit |-> "kg"]
       <=> arg.metricType \in {"weight", "none"})

\* C24 (as stated): for a metric other than "time" and a string, the target
\* is range{min,max} exactly when the string matches /^\d+-\d+$/, time
\* {seconds} when it matches /^\d+\s*s$/i, and reps{parseInt(reps) or 10}
\* otherwise; load is weight{unit:"kg"} exactly when the metric is "weight"
\* (the default).
C24_RangeWithoutSpaces == ConvertsStrings(0) /\ LoadIsWeightForWeight

\* C24 (amended): as stated, the range pattern being /^\d+\s*-\s*\d+$/,
\* which allows white space around the hyphen.
C24_RangeWithSpaces == ConvertsStrings(MaxRepsLen) /\ LoadIsWeightForWeight

\* C24 witness: "1 -2" was converted to the range 1..2.
C24_Witness ==
  /\ ret.op = "legacyExerciseToStep"
  /\ arg.metricType = "none"
  /\ arg.reps = StringValue(<<"1", " ", "-", "2">>)
  /\ ret.value.target = [type |-> "range", min |-> 1, max |-> 2]
  /\ ret.value.load = [type |-> "weight", unit |-> "kg"]

\* ------------------------------------------------------------------------
\* The analytics export (calculateStatistics, generateWeeklySummaries).
\* Here the clock counts the hours since the midnight (UTC) of a Monday,
\* and an ISO date is the number of its day, day 0 being that Monday.

\* The resolved sessions a caller passes hold at most MaxSessions sessions.
MaxSessions == 3

WorkoutSession(date, sessionId, cardio) ==
  [date |-> date, sessionId |-> sessionId, cardio |-> cardio]

\* new Date(timestamp).toISOString().split('T')[0]
formatDate(timestamp) == timestamp \div oneDay

\* new Date(date).getTime() of an ISO date: its midnight in UTC
getTime(date) == date * oneDay

\* The local day and the local hour of an instant
LocalDay(t, offset) == (t + offset) \div oneDay
LocalHour(t, offset) == (t + offset) % oneDay

\* Date.prototype.getDay(): 0 is Sunday, 1 is Monday
getDay(t, offset) == (LocalDay(t, offset) + 1) % 7

\* getWeekStart(date): setDate moves the local day and keeps the local hour
getWeekStart(t, offset) ==
  LET day  == getDay(t, offset)
      diff == LocalDay(t, offset) - day + (IF day = 0 THEN -6 ELSE 1)
  IN diff * oneDay + LocalHour(t, offset) - offset

\* getWeekEnd(date): weekEnd.setDate(weekEnd.getDate() + 6)
getWeekEnd(t, offset) == getWeekStart(t, offset) + 6 * oneDay

\* sessions.forEach of generateWeeklySummaries: the week map, in the order
\* its keys were first set.
RECURSIVE GroupWeeks(_, _, _, _)
GroupWeeks(sessions, offset, n, weekMap) ==
  IF n > Len(sessions) THEN weekMap
  ELSE LET date      == getTime(sessions[n].date)
           weekStart == getWeekStart(date, offset)
           i         == KeyIndex(weekMap, weekStart)
           added     == IF i = 0
                        THEN Append(weekMap, [key |-> weekStart, weekStart |-> weekStart,
                                              weekEnd |-> getWeekEnd(date, offset),
                                              gymSessions |-> 0, cardioSessions |-> 0])
                        ELSE weekMap
           j         == IF i = 0 THEN Len(added) ELSE i
       IN GroupWeeks(sessions, offset, n + 1,
            IF sessions[n].cardio
            THEN [added EXCEPT ![j].cardioSessions = @ + 1]
            ELSE [added EXCEPT ![j].gymSessions = @ + 1])

\* sort((a, b) => new Date(b.weekStart).getTime() - new Date(a.weekStart).getTime())
RECURSIVE SortWeeksDesc(_)
SortWeeksDesc(seq) ==
  IF seq = <<>> THEN <<>>
  ELSE LET top == Max({getTime(seq[i].weekStart) : i \in 1..Len(seq)})
           i0  == Min({i \in 1..Len(seq) : getTime(seq[i].weekStart) = top})
       IN <<seq[i0]>> \o SortWeeksDesc(Without(seq, i0))

generateWeeklySummaries(sessions, offset) ==
  LET weekMap == GroupWeeks(sessions, offset, 1, <<>>)
  IN SortWeeksDesc([i \in 1..Len(weekMap) |->
       [weekStart      |-> formatDate(weekMap[i].weekStart),
        weekEnd        |-> formatDate(weekMap[i].weekEnd),
        gymSessions    |-> weekMap[i].gymSessions,
        cardioSessions |-> weekMap[i].cardioSessions]])

\* A quotient of two numbers
Fraction(num, den) == [num |-> num, den |-> den]

\* The oldest session is never taken to be less than a week old.
WeekSinceFirstSession(sessions, now) ==
  LET oldestSession == IF Len(sessions) > 0 THEN getTime(sessions[Len(sessions)].date)
                       ELSE now
  IN Max({7 * oneDay, now - oldestSession})

\* const daysSinceFirstSession = Math.max(1, (now - oldestSession) / (24 * 60 * 60 * 1000)),
\* in hours
daysSinceFirstSession(sessions, now) ==
  LET oldestSession == IF Len(sessions) > 0 THEN getTime(sessions[Len(sessions)].date)
                       ELSE now
  IN Max({oneDay, now - oldestSession})

\* total / (daysSinceFirstSession / days), for days = 7 and days = 30
AveragePer(total, days, sessions, now) ==
  Fraction(total * days * oneDay, daysSinceFirstSession(sessions, now))

calculateStatistics(sessions, now) ==
  LET totalGymSessions    == Cardinality({i \in 1..Len(sessions) : ~sessions[i].cardio})
      totalCardioSessions == Cardinality({i \in 1..Len(sessions) : sessions[i].cardio})
  IN [totalGymSessions    |-> totalGymSessions,
      totalCardioSessions |-> totalCardioSessions,
      averageGymSessionsPerWeek     |-> AveragePer(totalGymSessions, 7, sessions, now),
      averageGymSessionsPerMonth    |-> AveragePer(totalGymSessions, 30, sessions, now),
      averageCardioSessionsPerWeek  |-> AveragePer(totalCardioSessions, 7, sessions, now),
      averageCardioSessionsPerMonth |-> AveragePer(totalCardioSessions, 30, sessions, now)]

\* Sessions of a Tuesday, of the Sunday twelve days later and of the Monday
\* after it: gym sessions and runs.
SessionSamples ==
  {WorkoutSession(date, id, id = "running") : date \in {1, 13, 14}, id \in {"A", "running"}}

\* groupWorkoutSessions returns the sessions sorted by date, newest first.
ResolvedSessions ==
  {s \in Lists(SessionSamples, MaxSessions) :
     \A i \in 1..(Len(s) - 1) : s[i].date >= s[i + 1].date}

\* The export is asked for at noon (UTC) of the last Monday or five weeks
\* later, in New York, London or Stockholm.
InitExport ==
  /\ arg \in ResolvedSessions
  /\ calendar = <<>>
  /\ utcOffset \in {-5, 0, 2}
  /\ clock \in {14 * oneDay + 12, 49 * oneDay + 12}
  /\ InitApp
  /\ InitStore(<<>>)

CalculateStatistics ==
  /\ ret' = StatResult("calculateStatistics", calculateStatistics(arg, clock))
  /\ UNCHANGED <<exercises, logs, keyGen, order, openVars, extVars>>

GenerateWeeklySummaries ==
  /\ ret' = StatResult("generateWeeklySummaries", generateWeeklySummaries(arg, utcOffset))
  /\ UNCHANGED <<exercises, logs, keyGen, order, openVars, extVars>>

NextExport ==
  \/ CalculateStatistics
  \/ GenerateWeeklySummaries

SpecExport == InitExport /\ [][NextExport]_vars

\* ------------------------------------------------------------------------
\* C25

\* The hours since the midnight (UTC) of the oldest session's date
HoursSinceOldestSession ==
  IF Len(arg) > 0 THEN clock - arg[Len(arg)].date * 24 ELSE 0

\* average = total / max(1, daysSinceOldestSession / days)
IsTotalOverPeriods(average, total, days) ==
  average.num * Max({days * 24, HoursSinceOldestSession}) = total * days * 24 * average.den

\* average = total / (max(1, daysSinceOldestSession) / days)
IsTotalOverDays(average, total, days) ==
  average.num * Max({24, HoursSinceOldestSession}) = total * days * 24 * average.den

\* average <= factor * total
AtMost(average, factor, total) == average.num <= factor * total * average.den

MondayOf(date) == date - (date % 7)

SessionsOfWeek(monday, cardio) ==
  {j \in 1..Len(arg) : MondayOf(arg[j].date) = monday /\ arg[j].cardio = cardio}

\* C26 (as stated): the weekly summaries hold one entry per Monday-starting
\* week with a session; an entry counts the gym sessions and the cardio
\* sessions of its week, so that each session is counted once; every
\* weekStart is a Monday; the entries are sorted by weekStart, descending.
C26_OneEntryPerMondayWeek ==
  ret.op = "generateWeeklySummaries" =>
    LET weeks == ret.value IN
    /\ {weeks[i].weekStart : i \in 1..Len(weeks)}
         = {MondayOf(arg[j].date) : j \in 1..Len(arg)}
    /\ \A i \in 1..Len(weeks) :
         /\ weeks[i].weekStart % 7 = 0
         /\ weeks[i].gymSessions = Cardinality(SessionsOfWeek(weeks[i].weekStart, FALSE))
         /\ weeks[i].cardioSessions = Cardinality(SessionsOfWeek(weeks[i].weekStart, TRUE))
    /\ \A i \in 1..(Len(weeks) - 1) : weeks[i].weekStart > weeks[i + 1].weekStart

\* ------------------------------------------------------------------------
\* C27

\* C27: for the completed sessions passed to getWorkoutStatus, streak >= 1
\* holds if and only if hasWorkoutToday is true, and streak never exceeds
\* the number of distinct calendar days that contain a completed session.
C27_StreakOnlyWithWorkoutToday ==
  ret.op = "getWorkoutStatus" =>
    /\ ret.value.streak >= 1 <=> ret.value.hasWorkoutToday
    /\ ret.value.streak <= Cardinality(SessionDays)

\* ------------------------------------------------------------------------
\* A backup document imported twice in succession

\* importBackup(doc), the call being known as name afterwards
ImportNamed(doc, now, name) ==
  LET r == importBackup(exercises, logs, keyGen, order, doc, now) IN
  /\ Cardinality(DOMAIN r.logs) <= MaxLogs
  /\ exercises' = r.exercises
  /\ logs' = r.logs
  /\ keyGen' = r.keyGen
  /\ order' = r.order
  /\ ret' = [r.ret EXCEPT !.op = name]
  /\ arg' = doc
  /\ UNCHANGED <<openVars, clockVars, sideVars, appVars>>

\* The user picks a backup file, which is imported: the first import of
\* the run.
ImportBackupFirst ==
  /\ arg = <<>>
  /\ \E doc \in Docs, now \in Clock : ImportNamed(doc, now, "importBackup")

\* The user picks the same file again.
ImportBackupAgain ==
  /\ ret.op = "importBackup"
  /\ \E now \in Clock : ImportNamed(arg, now, "importBackupAgain")

NextReimport ==
  \/ SaveWorkoutLog
  \/ ImportBackupFirst
  \/ ImportBackupAgain

SpecReimport == Init /\ [][NextReimport]_vars

\* ------------------------------------------------------------------------
\* C28

SecondImport == ret.op = "importBackup" /\ ret'.op = "importBackupAgain"

\* Every workout log of the document carries an id.
LogsCarryIds(doc) ==
  \A i \in 1..Len(LogEntries(doc.workoutLogs)) : LogEntries(doc.workoutLogs)[i].id # Absent

\* C28 (as stated): importing the same backup document twice in succession
\* leaves exercises and workoutLogs as they were after the first import.
C28_SecondImportChangesNothing ==
  [][SecondImport => (logs' = logs /\ exercises' = exercises)]_vars

\* C28 (amended): importing twice in succession the same backup document,
\* every workout log of which carries an id (as in every document
\* exportBackup returns), leaves exercises and workoutLogs as they were
\* after the first import, the second import adding no workout log.
C28_SecondImportOfKeyedLogsChangesNothing ==
  [][(SecondImport /\ LogsCarryIds(arg)) =>
       /\ logs' = logs
       /\ exercises' = exercises
       /\ ret'.success = ret.success
       /\ ret'.workoutLogsImported = 0]_vars

\* C28 witness: a document with a log that carries an id was imported, the
\* log was stored, and the document was imported again.
C28_Witness ==
  /\ ret.op = "importBackupAgain"
  /\ ret.success
  /\ LogsCarryIds(arg)
  /\ Len(LogEntries(arg.workoutLogs)) > 0
  /\ \A i \in 1..Len(LogEntries(arg.workoutLogs)) :
       LogEntries(arg.workoutLogs)[i].id \in DOMAIN logs

\* ------------------------------------------------------------------------
\* components: SessionView.  The value of an entry is a number, NaN, or
\* null (Absent here).

SessionEntry(exerciseId, value, completed, sessionId) ==
  [exerciseId |-> exerciseId, value |-> value, completed |-> completed,
   sessionId |-> sessionId]

\* entry.value !== null && !isNaN(entry.value) && entry.value > 0
IsValidEntry(entry) == entry.value # Absent /\ entry.value # NaN /\ entry.value > 0

\* Object.values(sessionEntries).filter(...)
RECURSIVE ValidEntries(_)
ValidEntries(entries) ==
  IF entries = <<>> THEN <<>>
  ELSE IF IsValidEntry(Head(entries)) THEN <<Head(entries)>> \o ValidEntries(Tail(entries))
  ELSE ValidEntries(Tail(entries))

\* for (const entry of validEntries) await saveLog({...}): the entries are
\* saved one transaction after the other, up to the one whose saveLog
\* rejects (failAt; 0: none does).
RECURSIVE SaveEntries(_, _, _, _, _, _, _)
SaveEntries(lg, kg, ord, validEntries, n, failAt, now) ==
  IF n > Len(validEntries) THEN [logs |-> lg, keyGen |-> kg, order |-> ord, thrown |-> FALSE]
  ELSE IF n = failAt THEN [logs |-> lg, keyGen |-> kg, order |-> ord, thrown |-> TRUE]
  ELSE LET e == validEntries[n]
           r == saveWorkoutLog(lg, kg,
                  LogRecord(Absent, e.exerciseId, e.sessionId, e.value, Absent,
                            e.completed, Absent, "none", Absent, Absent), now)
       IN SaveEntries(r.logs, r.keyGen, Append(ord, r.key), validEntries, n + 1, failAt, now)

\* handleCompleteSession
handleCompleteSession(view, lg, kg, ord, failAt, now) ==
  LET validEntries == ValidEntries(view.sessionEntries) IN
  IF Len(validEntries) = 0
  THEN [logs |-> lg, keyGen |-> kg, order |-> ord,
        view |-> [view EXCEPT !.saveError = "Please log at least one exercise"]]
  ELSE LET s == SaveEntries(lg, kg, ord, validEntries, 1, failAt, now) IN
       [logs |-> s.logs, keyGen |-> s.keyGen, order |-> s.order,
        view |-> IF s.thrown
                 THEN [view EXCEPT !.saveError = "Failed to save session", !.isSaving = FALSE]
                 ELSE [view EXCEPT !.saveError = "null", !.isSaving = TRUE, !.shown = FALSE]]

\* What the user entered: a weight, nothing, something that is no number,
\* zero and a negative number.
EntryValues == {60, Absent, NaN, 0, -5}

\* The entries of a session view, in the order the exercises were first
\* touched.
EnteredExercises ==
  {s \in Lists({SessionEntry(e, v, TRUE, "A") : e \in ExerciseIds, v \in EntryValues},
               Cardinality(ExerciseIds)) :
     \A i, j \in 1..Len(s) : s[i].exerciseId = s[j].exerciseId => i = j}

\* Session A is open and the user has entered values.
InitSession ==
  /\ arg = <<>>
  /\ calendar = <<>>
  /\ utcOffset = 0
  /\ clock \in Clock
  /\ InitStore(<<>>)
  /\ localStorage = EmptyStore
  /\ notification = [showNotification |-> FALSE, isDownloading |-> FALSE, error |-> "null"]
  /\ sessionView \in [shown : {TRUE}, sessionEntries : EnteredExercises,
                      isSaving : {FALSE}, saveError : {"null"}]
  /\ caches = EmptyStore
  /\ worker = "none"
  /\ online = TRUE
  /\ loadedOnline = FALSE

\* The user presses Complete Session; one of the saveLog calls may reject.
HandleCompleteSession ==
  \E failAt \in 0..Cardinality(ExerciseIds) :
    LET r == handleCompleteSession(sessionView, logs, keyGen, order, failAt, clock) IN
    /\ sessionView.shown
    /\ ~sessionView.isSaving
    /\ Cardinality(DOMAIN r.logs) <= MaxLogs
    /\ logs' = r.logs
    /\ keyGen' = r.keyGen
    /\ order' = r.order
    /\ sessionView' = r.view
    /\ arg' = [failAt |-> failAt]
    /\ UNCHANGED <<exercises, ret, openVars, clockVars, sideVars, localStorage,
                   notification, caches, worker, online, loadedOnline>>

NextSession ==
  \/ HandleCompleteSession

SpecSession == InitSession /\ [][NextSession]_vars

\* ------------------------------------------------------------------------
\* C29

LogsOf(exerciseId) == {k \in DOMAIN logs : logs[k].exerciseId = exerciseId}

\* C29: after Complete Session attempts on the same entries that end with
\* a successful one, the store holds exactly one log per entered exercise
\* with a value > 0 and none for the other entries; an attempt that reports
\* 'Failed to save session' leaves none of its entries persisted.
C29_OneLogPerEnteredExercise ==
  /\ ~sessionView.shown =>
       \A i \in 1..Len(sessionView.sessionEntries) :
         LET e == sessionView.sessionEntries[i] IN
         Cardinality(LogsOf(e.exerciseId)) =
           IF e.value \notin {Absent, NaN} /\ e.value > 0 THEN 1 ELSE 0
  /\ (sessionView.shown /\ sessionView.saveError = "Failed to save session") =>
       logs = EmptyStore

\* ------------------------------------------------------------------------
\* components/BackupNotification.tsx

\* checkDatabaseAndShowReminder: the hook's getAllLogs and getAllExercises
\* resolve with [] when the read fails.
checkDatabaseAndShowReminder(ex, lg, storage, readFails, throws, now) ==
  LET logsRead      == IF readFails THEN <<>> ELSE getAllWorkoutLogs(lg)
      exercisesRead == IF readFails THEN <<>> ELSE getAllExercises(ex)
      hasData       == Len(logsRead) > 0 \/ Len(exercisesRead) > 0
  IN hasData /\ shouldShowBackupReminder(storage, throws, now)

\* The try block reaches setLastBackupDate: as if it were called before
\* downloadJSON
ReachedAfterExport(exportFails, downloadFails) == ~exportFails

\* The try block reaches setLastBackupDate: exportBackup resolved and
\* downloadJSON returned
ReachesSetLastBackupDate(exportFails, downloadFails) == ~exportFails /\ ~downloadFails

\* handleDownload, the database being ready
handleDownload(view, storage, exportFails, downloadFails, throws, now) ==
  LET recorded == ReachesSetLastBackupDate(exportFails, downloadFails)
      done     == ~exportFails /\ ~downloadFails
  IN [localStorage |-> IF recorded THEN setLastBackupDate(storage, throws, now)
                       ELSE storage,
      view |-> [showNotification |-> IF done THEN FALSE ELSE view.showNotification,
                isDownloading    |-> FALSE,
                error            |-> IF exportFails THEN "Failed to export backup"
                                     ELSE IF downloadFails
                                     THEN "Failed to download backup file"
                                     ELSE "null"]]

\* The app is opened a while after the epoch or more than a week later.
InitNotification ==
  /\ arg = <<>>
  /\ calendar = <<>>
  /\ utcOffset = 0
  /\ clock \in {2, 2 + (BACKUP_REMINDER_DAYS + 1) * oneDay}
  /\ InitStore(<<>>)
  /\ localStorage \in StoredBackups
  /\ notification = [showNotification |-> FALSE, isDownloading |-> FALSE, error |-> "null"]
  /\ sessionView = [shown |-> FALSE, sessionEntries |-> EmptyStore, isSaving |-> FALSE,
                    saveError |-> "null"]
  /\ caches = EmptyStore
  /\ worker = "none"
  /\ online = TRUE
  /\ loadedOnline = FALSE

\* The effect that runs when the component is mounted and the database is
\* ready.
CheckDatabaseAndShowReminder ==
  \E readFails \in BOOLEAN, throws \in BOOLEAN :
    /\ notification' =
         [notification EXCEPT !.showNotification =
            checkDatabaseAndShowReminder(exercises, logs, localStorage, readFails,
                                         throws, clock)]
    /\ ret' = StatResult("checkDatabaseAndShowReminder",
                         [readFails |-> readFails, throws |-> throws])
    /\ UNCHANGED <<exercises, logs, keyGen, order, openVars, clockVars, sideVars, arg,
                   localStorage, sessionView, caches, worker, online, loadedOnline>>

\* The user presses Download Backup on the reminder.
HandleDownload ==
  \E exportFails \in BOOLEAN, downloadFails \in BOOLEAN, throws \in BOOLEAN :
    LET r == handleDownload(notification, localStorage, exportFails, downloadFails,
                            throws, clock) IN
    /\ notification.showNotification
    /\ ~notification.isDownloading
    /\ localStorage' = r.localStorage
    /\ notification' = r.view
    /\ ret' = StatResult("handleDownload",
                         [exportFails |-> exportFails, downloadFails |-> downloadFails,
                          throws |-> throws])
    /\ UNCHANGED <<exercises, logs, keyGen, order, openVars, clockVars, sideVars, arg,
                   sessionView, caches, worker, online, loadedOnline>>

\* The user presses the X of the reminder.
HandleDismiss ==
  /\ notification.showNotification
  /\ notification' = [notification EXCEPT !.showNotification = FALSE]
  /\ ret' = StatResult("handleDismiss", <<>>)
  /\ UNCHANGED <<exercises, logs, keyGen, order, openVars, clockVars, sideVars, arg,
                 localStorage, sessionView, caches, worker, online, loadedOnline>>

NextNotification ==
  \/ SaveExercise
  \/ SaveWorkoutLog
  \/ CheckDatabaseAndShowReminder
  \/ HandleDownload
  \/ HandleDismiss

SpecNotification == InitNotification /\ [][NextNotification]_vars

\* ------------------------------------------------------------------------
\* C30

DownloadAttempt == ret'.op = "handleDownload"

AttemptFailed == ret'.value.exportFails \/ ret'.value.downloadFails

\* C30: the last-backup timestamp is written only by a download attempt
\* whose export and whose download both succeeded; an attempt whose export
\* or download fails leaves the timestamp unchanged and the reminder
\* visible and shows an error; the reminder is never shown while both
\* collections are empty.
C30_TimestampOnlyAfterDownload ==
  /\ [][/\ localStorage' # localStorage => (DownloadAttempt /\ ~AttemptFailed)
        /\ (DownloadAttempt /\ AttemptFailed) =>
             /\ localStorage' = localStorage
             /\ notification'.showNotification
             /\ notification'.error # "null"
             /\ ~notification'.isDownloading]_vars
  /\ [](notification.showNotification => ~(exercises = EmptyStore /\ logs = EmptyStore))

\* C30 witness: the export succeeded and the download failed; the reminder
\* is still shown, with the error, and no timestamp is stored.
C30_Witness ==
  /\ ret.op = "handleDownload"
  /\ ~ret.value.exportFails
  /\ ret.value.downloadFails
  /\ notification.showNotification
  /\ notification.error = "Failed to download backup file"
  /\ localStorage = EmptyStore
  /\ logs # EmptyStore

====
